---- MODULE Spec2Model ----
(***************************************************************************)
(* Bounded single-producer/single-consumer queues of spsc-queue-cpp:       *)
(*   "simple"  simple_spsc_queue.hpp          mutex + condition variables  *)
(*   "counter" atomic_counter_spsc_queue.hpp  ring + atomic size_ counter  *)
(*   "spin"    atomic_spin_spsc_queue.hpp     ring + spin on head_/tail_   *)
(*   "wait"    atomic_wait_spsc_queue.hpp     ring + atomic wait/notify    *)
(* Three threads act on one queue: the producer P (push / try_push), the   *)
(* consumer C (pop / try_pop) and a closer K (close).  Every access to     *)
(* shared memory is one step; thread-local computation is folded into the  *)
(* step of the shared access that precedes or follows it.                  *)
(***************************************************************************)
EXTENDS Integers, Naturals, Sequences, FiniteSets, TLC

\* ---- bounds of the model ------------------------------------------------
MaxCapacity == 2
MaxCalls == 3
MaxCloses == 2

\* the spin threshold: yield_after_ is 1024 in the source; the queue state
\* does not depend on it, so the model spins a shorter round before a yield
YieldAfter == 2

\* std::size_t arithmetic wraps modulo 2^64; the model wraps at a smaller
\* modulus, far above every capacity and count it reaches
SizeMod == 65536

Variants == {"simple", "counter", "spin", "wait"}

Empty == 0            \* std::nullopt / default-constructed slot
NoRes == -1           \* the consumer has no result yet

\* variant, capacity_                      the queue constructed
\* ctor   the constructor call: the capacity asked for and how it ended
\* mm     the memory of the lock-free classes as the C++ memory model gives
\*        it: per atomic variable the stores made to it in modification
\*        order, each with the slot accesses its writer had released (hist),
\*        per thread the newest store of each atomic it has read (seen) and
\*        the slot accesses that happen before its next step (view), per
\*        slot the number of accesses made (ver), whether two conflicting
\*        slot accesses were unordered (race), and the loads and stores
\*        executed with their memory orders (loads, stores)
\* buffer_, head_, tail_, closed_, size_   members of the ring variants
\* q_, mtx_                                deque and mutex of the lock variant
\* ppc, pop_, pitem, pt, ph, pspin, pres   producer: position, call, item,
\*                                         locals t and h (or s), spin, result
\* cpc, cop, ch, ct, cval, cspin, cres     consumer: the same, value read
\* kpc, ncloses                            closer
\* History, read by the properties only:
\*   accepted   items in the order their push published them (tail_ store,
\*              push_back, size_.fetch_add), after which the call returns true
\*   delivered  items in the order a pop took them out (head_ store,
\*              pop_front, size_.fetch_sub), after which the call returns them
\*   closeDone  some close() has returned
\*   closedQuiet  some close() returned while neither P nor C was in a call
\*   pInFlightAtClose  a producer call was in progress when closed_ went up
\*   pAfterClose  the producer's current call began after a close() returned
\*   pWokenByClose  close()'s notification unblocked the producer's call
\*   cAfterQuiet  the consumer's current call began after a quiet close
\*   cAfterClose  the consumer's current call began after a close() returned
\*   ref  while no two calls have overlapped: the lock-based queue run through
\*        the same calls one after the other, with the result of its last
\*        producer call (p) and of its last consumer call (c)
VARIABLES
  variant, capacity_, ctor, mm,
  buffer_, head_, tail_, closed_, size_, q_, mtx_,
  ppc, pop_, pitem, pt, ph, pspin, pres, pcalls,
  cpc, cop, ch, ct, cval, cspin, cres,
  kpc, ncloses,
  accepted, delivered, closeDone, closedQuiet, pInFlightAtClose,
  pAfterClose, pWokenByClose, cAfterQuiet, cAfterClose, ref

qvars == <<variant, capacity_, ctor, mm, buffer_, head_, tail_, closed_, size_, q_, mtx_>>
pvars == <<ppc, pop_, pitem, pt, ph, pspin, pres, pcalls>>
cvars == <<cpc, cop, ch, ct, cval, cspin, cres>>
kvars == <<kpc, ncloses>>
hvars == <<accepted, delivered, closeDone, closedQuiet, pInFlightAtClose,
           pAfterClose, pWokenByClose, cAfterQuiet, cAfterClose, ref>>
vars == <<qvars, pvars, cvars, kvars, hvars>>

\* ---- no call in progress ------------------------------------------------
PIdle == ppc \in {"idle", "done"}
CIdle == cpc \in {"idle", "done"}
KIdle == kpc \in {"idle", "done"}

\* ---- simple_spsc_queue run by one thread, call after call ----------------
RefInit ==
  [seq |-> TRUE, q |-> <<>>, closed |-> FALSE, p |-> "none", c |-> NoRes]
\* calls have overlapped, or a call had to wait: no reference any more
RefBroken ==
  [seq |-> FALSE, q |-> <<>>, closed |-> FALSE, p |-> "none", c |-> NoRes]
\* simple_spsc_queue.hpp line 50 / line 65: the call would have to wait
RefPushWaits(r) == ~(r.closed \/ Len(r.q) < capacity_)
RefPopWaits(r) == ~(r.closed \/ r.q # <<>>)
\* locked_push, lines 107-118
RefLockedPush(r, item) ==
  IF Len(r.q) >= capacity_ \/ r.closed THEN [r EXCEPT !.p = "false"]
  ELSE [r EXCEPT !.q = Append(@, item), !.p = "true"]
\* locked_pop, lines 120-132
RefLockedPop(r) ==
  IF r.q = <<>> THEN [r EXCEPT !.c = Empty]
  ELSE [r EXCEPT !.q = Tail(@), !.c = Head(r.q)]
RefPCall(op) ==
  IF ref.seq /\ CIdle /\ KIdle /\ ~(op = "push" /\ RefPushWaits(ref))
  THEN RefLockedPush(ref, pcalls + 1) ELSE RefBroken
RefCCall(op) ==
  IF ref.seq /\ PIdle /\ KIdle /\ ~(op = "pop" /\ RefPopWaits(ref))
  THEN RefLockedPop(ref) ELSE RefBroken
\* close(), lines 81-89
RefKCall ==
  IF ref.seq /\ PIdle /\ CIdle THEN [ref EXCEPT !.closed = TRUE]
  ELSE RefBroken

\* ---- atomics and slots under the C++ memory model ----------------------
MmInitFor(slots) ==
  LET zero == [s \in slots |-> 0]
      atomics == {"head_", "tail_", "size_", "closed_"}
  IN [hist |-> [v \in atomics |->
                  <<[val |-> IF v = "closed_" THEN FALSE ELSE 0,
                     view |-> zero]>>],
      seen |-> [th \in {"P", "C", "K"} |-> [v \in atomics |-> 1]],
      view |-> [th \in {"P", "C", "K"} |-> zero],
      ver |-> zero, race |-> FALSE, loads |-> {}, stores |-> {}]

\* ---- construction -------------------------------------------------------
\* buffer_size_: capacity + 1 in the head/tail rings, capacity in the
\* counter ring, no ring at all in the mutex variant
buffer_size_ ==
  CASE variant \in {"spin", "wait", "tailhead"} -> (capacity_ + 1) % SizeMod
    [] variant = "counter" -> capacity_
    [] OTHER -> 0

InitState ==
  /\ capacity_ \in 1..MaxCapacity
  /\ ctor = [capacity |-> capacity_, result |-> "ok"]
  /\ mm = MmInitFor(0..(buffer_size_ - 1))
  /\ buffer_ = [i \in 0..(buffer_size_ - 1) |-> Empty]
  /\ head_ = 0 /\ tail_ = 0 /\ closed_ = FALSE /\ size_ = 0
  /\ q_ = <<>> /\ mtx_ = "free"
  /\ ppc = "idle" /\ pop_ = "none" /\ pitem = Empty /\ pt = 0 /\ ph = 0
  /\ pspin = 0 /\ pres = "none" /\ pcalls = 0
  /\ cpc = "idle" /\ cop = "none" /\ ch = 0 /\ ct = 0 /\ cval = Empty
  /\ cspin = 0 /\ cres = NoRes
  /\ kpc = "idle" /\ ncloses = 0
  /\ accepted = <<>> /\ delivered = <<>>
  /\ closeDone = FALSE /\ closedQuiet = FALSE /\ pInFlightAtClose = FALSE
  /\ pAfterClose = FALSE /\ pWokenByClose = FALSE /\ cAfterQuiet = FALSE
  /\ cAfterClose = FALSE /\ ref = RefInit

Init == variant \in Variants /\ InitState

\* ---- helpers shared by the ring variants --------------------------------
\* an index that is never wrapped
NextIndexUnwrapped(i) == i + 1
NextIndex(i) == (i + 1) % buffer_size_

\* the value of spin after  if (++spin >= yield_after_) { yield(); spin = 0; }
SpinStep(spin) == IF spin + 1 >= YieldAfter THEN 0 ELSE spin + 1


\* a call of the producer begins: the item is the call's ordinal
PCall(op, first) ==
  /\ PIdle /\ pcalls < MaxCalls
  /\ ppc' = first /\ pop_' = op
  /\ pitem' = pcalls + 1 /\ pcalls' = pcalls + 1
  /\ pres' = "none" /\ pspin' = 0 /\ pt' = 0 /\ ph' = 0
  /\ pAfterClose' = closeDone /\ pWokenByClose' = FALSE
  /\ ref' = RefPCall(op)
  /\ UNCHANGED <<qvars, cvars, kvars, accepted, delivered, closeDone,
                 closedQuiet, pInFlightAtClose, cAfterQuiet, cAfterClose>>

\* a call of the consumer begins
CCall(op, first) ==
  /\ CIdle
  /\ cpc' = first /\ cop' = op
  /\ cres' = NoRes /\ cspin' = 0 /\ ch' = 0 /\ ct' = 0 /\ cval' = Empty
  /\ cAfterQuiet' = closedQuiet /\ cAfterClose' = closeDone
  /\ ref' = RefCCall(op)
  /\ UNCHANGED <<qvars, pvars, kvars, accepted, delivered, closeDone,
                 closedQuiet, pInFlightAtClose, pAfterClose, pWokenByClose>>

\* the producer goes on to pc with the locals t, h, spin
PGo(pc, t, h, spin) ==
  /\ ppc' = pc /\ pt' = t /\ ph' = h /\ pspin' = spin
  /\ UNCHANGED <<pres, pop_, pitem, pcalls>>
\* the producer's call returns r; its locals die
PRet(r) ==
  /\ ppc' = "done" /\ pres' = r /\ pt' = 0 /\ ph' = 0 /\ pspin' = 0
  /\ UNCHANGED <<pop_, pitem, pcalls>>
\* the consumer goes on to pc with the locals h, t, value, spin
CGo(pc, h, t, v, spin) ==
  /\ cpc' = pc /\ ch' = h /\ ct' = t /\ cval' = v /\ cspin' = spin
  /\ UNCHANGED <<cres, cop>>
\* the consumer's call returns r; its locals die
CRet(r) ==
  /\ cpc' = "done" /\ cres' = r /\ ch' = 0 /\ ct' = 0 /\ cval' = Empty
  /\ cspin' = 0
  /\ UNCHANGED cop

HKeepP == UNCHANGED <<delivered, closeDone, closedQuiet, pInFlightAtClose,
                      pAfterClose, pWokenByClose, cAfterQuiet, cAfterClose, ref>>
HKeepC == UNCHANGED <<accepted, closeDone, closedQuiet, pInFlightAtClose,
                      pAfterClose, pWokenByClose, cAfterQuiet, cAfterClose, ref>>

\* a call of close() begins
KCall(first) ==
  /\ kpc \in {"idle", "done"} /\ ncloses < MaxCloses
  /\ kpc' = first /\ ncloses' = ncloses + 1
  /\ ref' = RefKCall
  /\ UNCHANGED <<qvars, pvars, cvars, accepted, delivered, closeDone,
                 closedQuiet, pInFlightAtClose, pAfterClose, pWokenByClose>>
  /\ UNCHANGED <<cAfterQuiet, cAfterClose>>

\* close() returns: the history notes whether it returned in a quiet moment
KRet ==
  /\ kpc' = "done"
  /\ closeDone' = TRUE
  /\ closedQuiet' = (closedQuiet \/ (PIdle /\ CIdle))
  /\ UNCHANGED ncloses

\* the closed flag goes up: the history notes a producer call in flight
KMark ==
  pInFlightAtClose' = IF closed_ THEN pInFlightAtClose ELSE ~PIdle

\* ======================================================================
\* busy-spin variant: atomic_spin_spsc_queue.hpp
\* ======================================================================
SpinTryPushCall == variant = "spin" /\ PCall("try_push", "stp_closed")

\* a try_push() that does not look at closed_
SpinTryPushClosedIgnored ==
  /\ variant = "spin" /\ ppc = "stp_closed"
  /\ PGo("stp_full", pt, ph, pspin)
  /\ UNCHANGED <<qvars, cvars, kvars, hvars>>

SpinTryPushClosed ==
  /\ variant = "spin" /\ ppc = "stp_closed"
  /\ IF closed_ THEN PRet("false") ELSE PGo("stp_full", pt, ph, pspin)
  /\ UNCHANGED <<qvars, cvars, kvars, hvars>>

\* a try_push() that stores without room
SpinTryPushFullIgnored ==
  /\ variant = "spin" /\ ppc = "stp_full"
  /\ PGo("stp_write", tail_, ph, pspin)
  /\ UNCHANGED <<qvars, cvars, kvars, hvars>>

SpinTryPushFull ==
  /\ variant = "spin" /\ ppc = "stp_full"
  /\ IF NextIndex(tail_) = head_ THEN PRet("false")
     ELSE PGo("stp_write", tail_, ph, pspin)
  /\ UNCHANGED <<qvars, cvars, kvars, hvars>>

SpinTryPushWrite ==
  /\ variant = "spin" /\ ppc = "stp_write"
  /\ buffer_' = [buffer_ EXCEPT ![pt] = pitem]
  /\ PGo("stp_store", pt, ph, pspin)
  /\ UNCHANGED <<cvars, kvars, hvars>>
  /\ UNCHANGED <<variant, capacity_, ctor, mm, head_, tail_, closed_, size_, q_, mtx_>>

SpinTryPushStore ==
  /\ variant = "spin" /\ ppc = "stp_store"
  /\ tail_' = NextIndex(pt)
  /\ accepted' = Append(accepted, pitem)
  /\ PRet("true")
  /\ HKeepP /\ UNCHANGED <<cvars, kvars>>
  /\ UNCHANGED <<variant, capacity_, ctor, mm, buffer_, head_, closed_, size_, q_, mtx_>>

SpinPushCall == variant = "spin" /\ PCall("push", "sp_closed")

\* a push() that stores its item in the tail slot before it gives up
SpinPushClosedPartial ==
  /\ variant = "spin" /\ ppc = "sp_closed"
  /\ IF closed_
     THEN /\ buffer_' = [buffer_ EXCEPT ![tail_] = pitem]
          /\ PRet("false")
     ELSE /\ PGo("sp_full", pt, ph, pspin)
          /\ UNCHANGED buffer_
  /\ UNCHANGED <<cvars, kvars, hvars>>
  /\ UNCHANGED <<variant, capacity_, ctor, mm, head_, tail_, closed_, size_, q_, mtx_>>

SpinPushClosed ==
  /\ variant = "spin" /\ ppc = "sp_closed"
  /\ IF closed_ THEN PRet("false") ELSE PGo("sp_full", pt, ph, pspin)
  /\ UNCHANGED <<qvars, cvars, kvars, hvars>>

\* lines 91-106: the full test and, when full, the spin count and the yield
SpinPushFull ==
  /\ variant = "spin" /\ ppc = "sp_full"
  /\ IF NextIndex(tail_) # head_
     THEN PGo("sp_write", tail_, ph, pspin)
     ELSE PGo("sp_closed", tail_, ph, SpinStep(pspin))
  /\ UNCHANGED <<qvars, cvars, kvars, hvars>>

SpinPushWrite ==
  /\ variant = "spin" /\ ppc = "sp_write"
  /\ buffer_' = [buffer_ EXCEPT ![pt] = pitem]
  /\ PGo("sp_store", pt, ph, pspin)
  /\ UNCHANGED <<cvars, kvars, hvars>>
  /\ UNCHANGED <<variant, capacity_, ctor, mm, head_, tail_, closed_, size_, q_, mtx_>>

SpinPushStore ==
  /\ variant = "spin" /\ ppc = "sp_store"
  /\ tail_' = NextIndex(pt)
  /\ accepted' = Append(accepted, pitem)
  /\ PRet("true")
  /\ HKeepP /\ UNCHANGED <<cvars, kvars>>
  /\ UNCHANGED <<variant, capacity_, ctor, mm, buffer_, head_, closed_, size_, q_, mtx_>>

SpinTryPopCall == variant = "spin" /\ CCall("try_pop", "stc_empty")

\* a try_pop() that stops delivering once the queue is closed
SpinTryPopEmptyOrClosed ==
  /\ variant = "spin" /\ cpc = "stc_empty"
  /\ IF head_ = tail_ \/ closed_ THEN CRet(Empty)
     ELSE CGo("stc_read", head_, ct, cval, cspin)
  /\ UNCHANGED <<qvars, pvars, kvars, hvars>>

SpinTryPopEmpty ==
  /\ variant = "spin" /\ cpc = "stc_empty"
  /\ IF head_ = tail_ THEN CRet(Empty)
     ELSE CGo("stc_read", head_, ct, cval, cspin)
  /\ UNCHANGED <<qvars, pvars, kvars, hvars>>

\* a try_pop() that takes the newest slot instead of the oldest
SpinTryPopReadNewest ==
  /\ variant = "spin" /\ cpc = "stc_read"
  /\ CGo("stc_store", ch, ct,
         buffer_[(tail_ + buffer_size_ - 1) % buffer_size_], cspin)
  /\ UNCHANGED <<qvars, pvars, kvars, hvars>>

SpinTryPopRead ==
  /\ variant = "spin" /\ cpc = "stc_read"
  /\ CGo("stc_store", ch, ct, buffer_[ch], cspin)
  /\ UNCHANGED <<qvars, pvars, kvars, hvars>>

SpinTryPopStore ==
  /\ variant = "spin" /\ cpc = "stc_store"
  /\ head_' = NextIndex(ch)
  /\ delivered' = Append(delivered, cval)
  /\ CRet(cval)
  /\ HKeepC /\ UNCHANGED <<pvars, kvars>>
  /\ UNCHANGED <<variant, capacity_, ctor, mm, buffer_, tail_, closed_, size_, q_, mtx_>>

SpinPopCall == variant = "spin" /\ CCall("pop", "sc_empty")

\* lines 133-149: the empty test and, when empty, the spin count and the yield
SpinPopEmpty ==
  /\ variant = "spin" /\ cpc = "sc_empty"
  /\ IF head_ # tail_
     THEN CGo("sc_read", head_, ct, cval, cspin)
     ELSE CGo("sc_closed", head_, ct, cval, SpinStep(cspin))
  /\ UNCHANGED <<qvars, pvars, kvars, hvars>>

SpinPopRead ==
  /\ variant = "spin" /\ cpc = "sc_read"
  /\ CGo("sc_store", ch, ct, buffer_[ch], cspin)
  /\ UNCHANGED <<qvars, pvars, kvars, hvars>>

SpinPopStore ==
  /\ variant = "spin" /\ cpc = "sc_store"
  /\ head_' = NextIndex(ch)
  /\ delivered' = Append(delivered, cval)
  /\ CRet(cval)
  /\ HKeepC /\ UNCHANGED <<pvars, kvars>>
  /\ UNCHANGED <<variant, capacity_, ctor, mm, buffer_, tail_, closed_, size_, q_, mtx_>>

\* a pop() whose loop never looks at closed_
SpinPopClosedIgnored ==
  /\ variant = "spin" /\ cpc = "sc_closed"
  /\ CGo("sc_empty", ch, ct, cval, cspin)
  /\ UNCHANGED <<qvars, pvars, kvars, hvars>>

\* a pop() that looks at closed_ only in the iterations that yield
SpinPopClosedAfterYield ==
  /\ variant = "spin" /\ cpc = "sc_closed"
  /\ IF closed_ /\ cspin = 0 THEN CRet(Empty)
     ELSE CGo("sc_empty", ch, ct, cval, cspin)
  /\ UNCHANGED <<qvars, pvars, kvars, hvars>>

SpinPopClosed ==
  /\ variant = "spin" /\ cpc = "sc_closed"
  /\ IF closed_ THEN CRet(Empty) ELSE CGo("sc_empty", ch, ct, cval, cspin)
  /\ UNCHANGED <<qvars, pvars, kvars, hvars>>

SpinCloseCall == variant = "spin" /\ KCall("sk_store")

\* a close() that flips the flag instead of setting it
SpinCloseStoreToggle ==
  /\ variant = "spin" /\ kpc = "sk_store"
  /\ closed_' = ~closed_
  /\ KMark /\ KRet
  /\ UNCHANGED <<accepted, delivered, pAfterClose, pWokenByClose, cAfterQuiet, cAfterClose, ref>>
  /\ UNCHANGED <<pvars, cvars>>
  /\ UNCHANGED <<variant, capacity_, ctor, mm, buffer_, head_, tail_, size_, q_, mtx_>>

SpinCloseStore ==
  /\ variant = "spin" /\ kpc = "sk_store"
  /\ closed_' = TRUE
  /\ KMark /\ KRet
  /\ UNCHANGED <<accepted, delivered, pAfterClose, pWokenByClose, cAfterQuiet, cAfterClose, ref>>
  /\ UNCHANGED <<pvars, cvars>>
  /\ UNCHANGED <<variant, capacity_, ctor, mm, buffer_, head_, tail_, size_, q_, mtx_>>

SpinProducer ==
  \/ SpinTryPushCall \/ SpinTryPushClosed \/ SpinTryPushFull
  \/ SpinTryPushWrite \/ SpinTryPushStore
  \/ SpinPushCall \/ SpinPushClosed \/ SpinPushFull
  \/ SpinPushWrite \/ SpinPushStore

SpinConsumer ==
  \/ SpinTryPopCall \/ SpinTryPopEmpty \/ SpinTryPopRead \/ SpinTryPopStore
  \/ SpinPopCall \/ SpinPopEmpty \/ SpinPopRead \/ SpinPopStore
  \/ SpinPopClosed

SpinCloser == SpinCloseCall \/ SpinCloseStore

NextSpin == SpinProducer \/ SpinConsumer \/ SpinCloser

InitSpin == Init /\ variant = "spin"
SpecSpin == InitSpin /\ [][NextSpin]_vars

\* ======================================================================
\* busy-spin without yield: atomic_tail_head_spsc_queue.hpp, its blocking
\* push() and pop() and its close() (not among the variants run by main.cpp)
\* ======================================================================
TailHeadPushCall == variant = "tailhead" /\ PCall("push", "tp_closed")

TailHeadPushClosed ==
  /\ variant = "tailhead" /\ ppc = "tp_closed"
  /\ IF closed_ THEN PRet("false") ELSE PGo("tp_full", pt, ph, pspin)
  /\ UNCHANGED <<qvars, cvars, kvars, hvars>>

\* lines 73-80: the full test; when full the loop starts over at once
TailHeadPushFull ==
  /\ variant = "tailhead" /\ ppc = "tp_full"
  /\ IF NextIndex(tail_) # head_
     THEN PGo("tp_write", tail_, ph, pspin)
     ELSE PGo("tp_closed", tail_, ph, pspin)
  /\ UNCHANGED <<qvars, cvars, kvars, hvars>>

TailHeadPushWrite ==
  /\ variant = "tailhead" /\ ppc = "tp_write"
  /\ buffer_' = [buffer_ EXCEPT ![pt] = pitem]
  /\ PGo("tp_store", pt, ph, pspin)
  /\ UNCHANGED <<cvars, kvars, hvars>>
  /\ UNCHANGED <<variant, capacity_, ctor, mm, head_, tail_, closed_, size_, q_, mtx_>>

TailHeadPushStore ==
  /\ variant = "tailhead" /\ ppc = "tp_store"
  /\ tail_' = NextIndex(pt)
  /\ accepted' = Append(accepted, pitem)
  /\ PRet("true")
  /\ HKeepP /\ UNCHANGED <<cvars, kvars>>
  /\ UNCHANGED <<variant, capacity_, ctor, mm, buffer_, head_, closed_, size_, q_, mtx_>>

TailHeadPopCall == variant = "tailhead" /\ CCall("pop", "tc_empty")

\* lines 110-119: the empty test
TailHeadPopEmpty ==
  /\ variant = "tailhead" /\ cpc = "tc_empty"
  /\ IF head_ # tail_
     THEN CGo("tc_read", head_, ct, cval, cspin)
     ELSE CGo("tc_closed", head_, ct, cval, cspin)
  /\ UNCHANGED <<qvars, pvars, kvars, hvars>>

TailHeadPopRead ==
  /\ variant = "tailhead" /\ cpc = "tc_read"
  /\ CGo("tc_store", ch, ct, buffer_[ch], cspin)
  /\ UNCHANGED <<qvars, pvars, kvars, hvars>>

TailHeadPopStore ==
  /\ variant = "tailhead" /\ cpc = "tc_store"
  /\ head_' = NextIndex(ch)
  /\ delivered' = Append(delivered, cval)
  /\ CRet(cval)
  /\ HKeepC /\ UNCHANGED <<pvars, kvars>>
  /\ UNCHANGED <<variant, capacity_, ctor, mm, buffer_, tail_, closed_, size_, q_, mtx_>>

TailHeadPopClosed ==
  /\ variant = "tailhead" /\ cpc = "tc_closed"
  /\ IF closed_ THEN CRet(Empty) ELSE CGo("tc_empty", ch, ct, cval, cspin)
  /\ UNCHANGED <<qvars, pvars, kvars, hvars>>

TailHeadCloseCall == variant = "tailhead" /\ KCall("tk_xchg")

\* lines 134-139: closed_.exchange(true); the notify_all() calls of the first
\* close() have no effect, no call of this class waits on an atomic
TailHeadCloseExchange ==
  /\ variant = "tailhead" /\ kpc = "tk_xchg"
  /\ closed_' = TRUE
  /\ KMark /\ KRet
  /\ UNCHANGED <<accepted, delivered, pAfterClose, pWokenByClose, cAfterQuiet, cAfterClose, ref>>
  /\ UNCHANGED <<pvars, cvars>>
  /\ UNCHANGED <<variant, capacity_, ctor, mm, buffer_, head_, tail_, size_, q_, mtx_>>

TailHeadProducer ==
  \/ TailHeadPushCall \/ TailHeadPushClosed \/ TailHeadPushFull
  \/ TailHeadPushWrite \/ TailHeadPushStore

TailHeadConsumer ==
  \/ TailHeadPopCall \/ TailHeadPopEmpty \/ TailHeadPopRead \/ TailHeadPopStore
  \/ TailHeadPopClosed

TailHeadCloser == TailHeadCloseCall \/ TailHeadCloseExchange

NextTailHead == TailHeadProducer \/ TailHeadConsumer \/ TailHeadCloser

InitTailHead == variant = "tailhead" /\ InitState
SpecTailHead == InitTailHead /\ [][NextTailHead]_vars


\* ======================================================================
\* wait-notify variant: atomic_wait_spsc_queue.hpp
\* std::atomic::wait(old) compares the value with old and returns when they
\* differ, otherwise blocks until a notify (or a spurious unblock) and
\* compares again.
\* ======================================================================
\* a head_ notification that reaches no waiter
NotifiedOnHeadLost(pc) == pc
\* head_.notify_one() / head_.notify_all(): only the producer waits on head_
NotifiedOnHead(pc) == IF pc = "wp_blocked" THEN "wp_wait" ELSE pc
\* a tail_ notification that reaches no waiter
NotifiedOnTailLost(pc) == pc
\* tail_.notify_one() / tail_.notify_all(): only the consumer waits on tail_
NotifiedOnTail(pc) == IF pc = "wc_blocked" THEN "wc_wait" ELSE pc

WaitTryPushCall == variant = "wait" /\ PCall("try_push", "wtp_closed")

WaitTryPushClosed ==
  /\ variant = "wait" /\ ppc = "wtp_closed"
  /\ IF closed_ THEN PRet("false") ELSE PGo("wtp_full", pt, ph, pspin)
  /\ UNCHANGED <<qvars, cvars, kvars, hvars>>

WaitTryPushFull ==
  /\ variant = "wait" /\ ppc = "wtp_full"
  /\ IF NextIndex(tail_) = head_ THEN PRet("false")
     ELSE PGo("wtp_write", tail_, ph, pspin)
  /\ UNCHANGED <<qvars, cvars, kvars, hvars>>

WaitTryPushWrite ==
  /\ variant = "wait" /\ ppc = "wtp_write"
  /\ buffer_' = [buffer_ EXCEPT ![pt] = pitem]
  /\ PGo("wtp_store", pt, ph, pspin)
  /\ UNCHANGED <<cvars, kvars, hvars>>
  /\ UNCHANGED <<variant, capacity_, ctor, mm, head_, tail_, closed_, size_, q_, mtx_>>

WaitTryPushStore ==
  /\ variant = "wait" /\ ppc = "wtp_store"
  /\ tail_' = NextIndex(pt)
  /\ accepted' = Append(accepted, pitem)
  /\ PGo("wtp_notify", pt, ph, pspin)
  /\ HKeepP /\ UNCHANGED <<cvars, kvars>>
  /\ UNCHANGED <<variant, capacity_, ctor, mm, buffer_, head_, closed_, size_, q_, mtx_>>

WaitTryPushNotify ==
  /\ variant = "wait" /\ ppc = "wtp_notify"
  /\ cpc' = NotifiedOnTail(cpc)
  /\ PRet("true")
  /\ UNCHANGED <<cop, ch, ct, cval, cspin, cres>>
  /\ UNCHANGED <<qvars, kvars, hvars>>

WaitPushCall == variant = "wait" /\ PCall("push", "wp_closed")

WaitPushClosed ==
  /\ variant = "wait" /\ ppc = "wp_closed"
  /\ IF closed_ THEN PRet("false") ELSE PGo("wp_full", pt, ph, pspin)
  /\ UNCHANGED <<qvars, cvars, kvars, hvars>>

\* lines 97-102: t, next and h are read, then the full test
WaitPushFull ==
  /\ variant = "wait" /\ ppc = "wp_full"
  /\ IF NextIndex(tail_) # head_
     THEN PGo("wp_write", tail_, head_, pspin)
     ELSE PGo("wp_wait", tail_, head_, pspin)
  /\ UNCHANGED <<qvars, cvars, kvars, hvars>>

WaitPushWrite ==
  /\ variant = "wait" /\ ppc = "wp_write"
  /\ buffer_' = [buffer_ EXCEPT ![pt] = pitem]
  /\ PGo("wp_store", pt, ph, pspin)
  /\ UNCHANGED <<cvars, kvars, hvars>>
  /\ UNCHANGED <<variant, capacity_, ctor, mm, head_, tail_, closed_, size_, q_, mtx_>>

WaitPushStore ==
  /\ variant = "wait" /\ ppc = "wp_store"
  /\ tail_' = NextIndex(pt)
  /\ accepted' = Append(accepted, pitem)
  /\ PGo("wp_notify", pt, ph, pspin)
  /\ HKeepP /\ UNCHANGED <<cvars, kvars>>
  /\ UNCHANGED <<variant, capacity_, ctor, mm, buffer_, head_, closed_, size_, q_, mtx_>>

WaitPushNotify ==
  /\ variant = "wait" /\ ppc = "wp_notify"
  /\ cpc' = NotifiedOnTail(cpc)
  /\ PRet("true")
  /\ UNCHANGED <<cop, ch, ct, cval, cspin, cres>>
  /\ UNCHANGED <<qvars, kvars, hvars>>

\* line 112, head_.wait(h): return when head_ differs from h, else block
WaitPushWait ==
  /\ variant = "wait" /\ ppc = "wp_wait"
  /\ IF head_ # ph THEN PGo("wp_closed", pt, ph, pspin)
     ELSE PGo("wp_blocked", pt, ph, pspin)
  /\ UNCHANGED <<qvars, cvars, kvars, hvars>>

\* a blocked head_.wait(h) is unblocked spuriously
WaitPushSpurious ==
  /\ variant = "wait" /\ ppc = "wp_blocked"
  /\ PGo("wp_wait", pt, ph, pspin)
  /\ UNCHANGED <<qvars, cvars, kvars, hvars>>

WaitTryPopCall == variant = "wait" /\ CCall("try_pop", "wtc_empty")

WaitTryPopEmpty ==
  /\ variant = "wait" /\ cpc = "wtc_empty"
  /\ IF head_ = tail_ THEN CRet(Empty)
     ELSE CGo("wtc_read", head_, ct, cval, cspin)
  /\ UNCHANGED <<qvars, pvars, kvars, hvars>>

WaitTryPopRead ==
  /\ variant = "wait" /\ cpc = "wtc_read"
  /\ CGo("wtc_store", ch, ct, buffer_[ch], cspin)
  /\ UNCHANGED <<qvars, pvars, kvars, hvars>>

WaitTryPopStore ==
  /\ variant = "wait" /\ cpc = "wtc_store"
  /\ head_' = NextIndex(ch)
  /\ delivered' = Append(delivered, cval)
  /\ CGo("wtc_notify", ch, ct, cval, cspin)
  /\ HKeepC /\ UNCHANGED <<pvars, kvars>>
  /\ UNCHANGED <<variant, capacity_, ctor, mm, buffer_, tail_, closed_, size_, q_, mtx_>>

WaitTryPopNotify ==
  /\ variant = "wait" /\ cpc = "wtc_notify"
  /\ ppc' = NotifiedOnHead(ppc)
  /\ CRet(cval)
  /\ UNCHANGED <<pop_, pitem, pt, ph, pspin, pres, pcalls>>
  /\ UNCHANGED <<qvars, kvars, hvars>>

WaitPopCall == variant = "wait" /\ CCall("pop", "wc_empty")

\* lines 141-145: h and t are read, then the empty test
WaitPopEmpty ==
  /\ variant = "wait" /\ cpc = "wc_empty"
  /\ IF head_ # tail_
     THEN CGo("wc_read", head_, tail_, cval, cspin)
     ELSE CGo("wc_closed", head_, tail_, cval, cspin)
  /\ UNCHANGED <<qvars, pvars, kvars, hvars>>

WaitPopRead ==
  /\ variant = "wait" /\ cpc = "wc_read"
  /\ CGo("wc_store", ch, ct, buffer_[ch], cspin)
  /\ UNCHANGED <<qvars, pvars, kvars, hvars>>

WaitPopStore ==
  /\ variant = "wait" /\ cpc = "wc_store"
  /\ head_' = NextIndex(ch)
  /\ delivered' = Append(delivered, cval)
  /\ CGo("wc_notify", ch, ct, cval, cspin)
  /\ HKeepC /\ UNCHANGED <<pvars, kvars>>
  /\ UNCHANGED <<variant, capacity_, ctor, mm, buffer_, tail_, closed_, size_, q_, mtx_>>

WaitPopNotify ==
  /\ variant = "wait" /\ cpc = "wc_notify"
  /\ ppc' = NotifiedOnHead(ppc)
  /\ CRet(cval)
  /\ UNCHANGED <<pop_, pitem, pt, ph, pspin, pres, pcalls>>
  /\ UNCHANGED <<qvars, kvars, hvars>>

WaitPopClosed ==
  /\ variant = "wait" /\ cpc = "wc_closed"
  /\ IF closed_ THEN CRet(Empty) ELSE CGo("wc_wait", ch, ct, cval, cspin)
  /\ UNCHANGED <<qvars, pvars, kvars, hvars>>

\* line 162, tail_.wait(t): return when tail_ differs from t, else block
WaitPopWait ==
  /\ variant = "wait" /\ cpc = "wc_wait"
  /\ IF tail_ # ct THEN CGo("wc_empty", ch, ct, cval, cspin)
     ELSE CGo("wc_blocked", ch, ct, cval, cspin)
  /\ UNCHANGED <<qvars, pvars, kvars, hvars>>

\* a blocked tail_.wait(t) is unblocked spuriously
WaitPopSpurious ==
  /\ variant = "wait" /\ cpc = "wc_blocked"
  /\ CGo("wc_wait", ch, ct, cval, cspin)
  /\ UNCHANGED <<qvars, pvars, kvars, hvars>>

WaitCloseCall == variant = "wait" /\ KCall("wk_store")

\* a close() that also throws the buffered items away
WaitCloseStoreDrains ==
  /\ variant = "wait" /\ kpc = "wk_store"
  /\ closed_' = TRUE /\ tail_' = head_
  /\ KMark
  /\ kpc' = "wk_nhead"
  /\ UNCHANGED <<ncloses, accepted, delivered, closeDone, closedQuiet,
                 pAfterClose, pWokenByClose, cAfterQuiet, cAfterClose, ref>>
  /\ UNCHANGED <<pvars, cvars>>
  /\ UNCHANGED <<variant, capacity_, ctor, mm, buffer_, head_, size_, q_, mtx_>>

WaitCloseStore ==
  /\ variant = "wait" /\ kpc = "wk_store"
  /\ closed_' = TRUE
  /\ KMark
  /\ kpc' = "wk_nhead"
  /\ UNCHANGED <<ncloses, accepted, delivered, closeDone, closedQuiet,
                 pAfterClose, pWokenByClose, cAfterQuiet, cAfterClose, ref>>
  /\ UNCHANGED <<pvars, cvars>>
  /\ UNCHANGED <<variant, capacity_, ctor, mm, buffer_, head_, tail_, size_, q_, mtx_>>

WaitCloseNotifyHead ==
  /\ variant = "wait" /\ kpc = "wk_nhead"
  /\ ppc' = NotifiedOnHead(ppc)
  /\ pWokenByClose' = (pWokenByClose \/ ppc = "wp_blocked")
  /\ kpc' = "wk_ntail"
  /\ UNCHANGED <<pop_, pitem, pt, ph, pspin, pres, pcalls>>
  /\ UNCHANGED <<ncloses, accepted, delivered, closeDone, closedQuiet,
                 pInFlightAtClose, pAfterClose, cAfterQuiet, cAfterClose, ref>>
  /\ UNCHANGED <<qvars, cvars>>

WaitCloseNotifyTail ==
  /\ variant = "wait" /\ kpc = "wk_ntail"
  /\ cpc' = NotifiedOnTail(cpc)
  /\ KRet
  /\ UNCHANGED <<cop, ch, ct, cval, cspin, cres>>
  /\ UNCHANGED <<accepted, delivered, pInFlightAtClose, pAfterClose,
                 pWokenByClose, cAfterQuiet, cAfterClose, ref>>
  /\ UNCHANGED <<qvars, pvars>>

WaitProducer ==
  \/ WaitTryPushCall \/ WaitTryPushClosed \/ WaitTryPushFull
  \/ WaitTryPushWrite \/ WaitTryPushStore \/ WaitTryPushNotify
  \/ WaitPushCall \/ WaitPushClosed \/ WaitPushFull \/ WaitPushWrite
  \/ WaitPushStore \/ WaitPushNotify \/ WaitPushWait

WaitConsumer ==
  \/ WaitTryPopCall \/ WaitTryPopEmpty \/ WaitTryPopRead \/ WaitTryPopStore
  \/ WaitTryPopNotify
  \/ WaitPopCall \/ WaitPopEmpty \/ WaitPopRead \/ WaitPopStore
  \/ WaitPopNotify \/ WaitPopClosed \/ WaitPopWait

WaitCloser == WaitCloseCall \/ WaitCloseStore \/ WaitCloseNotifyHead
              \/ WaitCloseNotifyTail

WaitSpurious == WaitPushSpurious \/ WaitPopSpurious

NextWait == WaitProducer \/ WaitConsumer \/ WaitCloser \/ WaitSpurious

InitWait == Init /\ variant = "wait"
SpecWait == InitWait /\ [][NextWait]_vars

\* ======================================================================
\* lock-based variant: simple_spsc_queue.hpp
\* mtx_ is "free" or the thread holding it; a thread blocked in a condition
\* variable holds no lock and goes on to re-lock once notified.
\* ======================================================================
\* a push() that waits for room even on a closed queue
PushPredicateRoomOnly == Len(q_) < capacity_
\* line 50: the predicate push() waits for
PushPredicate == closed_ \/ Len(q_) < capacity_
\* a pop() that does not wait at all
PopPredicateNoWait == TRUE
\* line 65: the predicate pop() waits for
PopPredicate == closed_ \/ q_ # <<>>
\* a locked_push that forgets the closed flag
LockedPushRejectsFullOnly == Len(q_) >= capacity_
\* line 108: locked_push refuses the item
LockedPushRejects == Len(q_) >= capacity_ \/ closed_
\* a locked_pop that stops delivering once the queue is closed
LockedPopEmptyOrClosed == q_ = <<>> \/ closed_
\* line 121: locked_pop has nothing to return
LockedPopEmpty == q_ = <<>>

\* producer_cv_.notify_one() / notify_all(): only the producer waits on it
NotifiedProducerCv(pc) == IF pc = "lp_cvwait" THEN "lp_relock" ELSE pc
\* a consumer_cv_ notification that reaches no waiter
NotifiedConsumerCvLost(pc) == pc
\* consumer_cv_.notify_one() / notify_all(): only the consumer waits on it
NotifiedConsumerCv(pc) == IF pc = "lc_cvwait" THEN "lc_relock" ELSE pc

QKeepMtx == UNCHANGED <<variant, capacity_, ctor, mm, buffer_, head_, tail_, closed_,
                        size_, q_>>

SimpleTryPushCall == variant = "simple" /\ PCall("try_push", "ltp_lock")

SimpleTryPushLock ==
  /\ variant = "simple" /\ ppc = "ltp_lock" /\ mtx_ = "free"
  /\ mtx_' = "P"
  /\ PGo("ltp_push", pt, ph, pspin)
  /\ QKeepMtx /\ UNCHANGED <<cvars, kvars, hvars>>

\* locked_push under try_push: refuse and unlock on return, or push_back
\* and lock.unlock()
SimpleTryPushLocked ==
  /\ variant = "simple" /\ ppc = "ltp_push" /\ mtx_ = "P"
  /\ mtx_' = "free"
  /\ IF LockedPushRejects
     THEN /\ PRet("false")
          /\ UNCHANGED <<q_, accepted>>
     ELSE /\ q_' = Append(q_, pitem)
          /\ accepted' = Append(accepted, pitem)
          /\ PGo("ltp_notify", pt, ph, pspin)
  /\ HKeepP /\ UNCHANGED <<cvars, kvars>>
  /\ UNCHANGED <<variant, capacity_, ctor, mm, buffer_, head_, tail_, closed_, size_>>

SimpleTryPushNotify ==
  /\ variant = "simple" /\ ppc = "ltp_notify"
  /\ cpc' = NotifiedConsumerCv(cpc)
  /\ PRet("true")
  /\ UNCHANGED <<cop, ch, ct, cval, cspin, cres>>
  /\ UNCHANGED <<qvars, kvars, hvars>>

SimplePushCall == variant = "simple" /\ PCall("push", "lp_lock")

SimplePushLock ==
  /\ variant = "simple" /\ ppc \in {"lp_lock", "lp_relock"} /\ mtx_ = "free"
  /\ mtx_' = "P"
  /\ PGo("lp_pred", pt, ph, pspin)
  /\ QKeepMtx /\ UNCHANGED <<cvars, kvars, hvars>>

\* line 50, producer_cv_.wait(lock, pred): go on when the predicate holds,
\* else release the mutex and block
\* a wait that blocks with the mutex still held
SimplePushPredKeepsMutex ==
  /\ variant = "simple" /\ ppc = "lp_pred" /\ mtx_ = "P"
  /\ IF PushPredicate
     THEN PGo("lp_push", pt, ph, pspin) /\ mtx_' = mtx_
     ELSE PGo("lp_cvwait", pt, ph, pspin) /\ mtx_' = mtx_
  /\ QKeepMtx /\ UNCHANGED <<cvars, kvars, hvars>>

SimplePushPred ==
  /\ variant = "simple" /\ ppc = "lp_pred" /\ mtx_ = "P"
  /\ IF PushPredicate
     THEN PGo("lp_push", pt, ph, pspin) /\ mtx_' = mtx_
     ELSE PGo("lp_cvwait", pt, ph, pspin) /\ mtx_' = "free"
  /\ QKeepMtx /\ UNCHANGED <<cvars, kvars, hvars>>

SimplePushLocked ==
  /\ variant = "simple" /\ ppc = "lp_push" /\ mtx_ = "P"
  /\ mtx_' = "free"
  /\ IF LockedPushRejects
     THEN /\ PRet("false")
          /\ UNCHANGED <<q_, accepted>>
     ELSE /\ q_' = Append(q_, pitem)
          /\ accepted' = Append(accepted, pitem)
          /\ PGo("lp_notify", pt, ph, pspin)
  /\ HKeepP /\ UNCHANGED <<cvars, kvars>>
  /\ UNCHANGED <<variant, capacity_, ctor, mm, buffer_, head_, tail_, closed_, size_>>

SimplePushNotify ==
  /\ variant = "simple" /\ ppc = "lp_notify"
  /\ cpc' = NotifiedConsumerCv(cpc)
  /\ PRet("true")
  /\ UNCHANGED <<cop, ch, ct, cval, cspin, cres>>
  /\ UNCHANGED <<qvars, kvars, hvars>>

\* a producer blocked in producer_cv_ wakes spuriously
SimplePushSpurious ==
  /\ variant = "simple" /\ ppc = "lp_cvwait"
  /\ PGo("lp_relock", pt, ph, pspin)
  /\ UNCHANGED <<qvars, cvars, kvars, hvars>>

SimpleTryPopCall == variant = "simple" /\ CCall("try_pop", "ltc_lock")

SimpleTryPopLock ==
  /\ variant = "simple" /\ cpc = "ltc_lock" /\ mtx_ = "free"
  /\ mtx_' = "C"
  /\ CGo("ltc_pop", ch, ct, cval, cspin)
  /\ QKeepMtx /\ UNCHANGED <<pvars, kvars, hvars>>

\* locked_pop under try_pop: nothing to return, or pop_front and
\* lock.unlock()
SimpleTryPopLocked ==
  /\ variant = "simple" /\ cpc = "ltc_pop" /\ mtx_ = "C"
  /\ mtx_' = "free"
  /\ IF LockedPopEmpty
     THEN /\ CRet(Empty)
          /\ UNCHANGED <<q_, delivered>>
     ELSE /\ q_' = Tail(q_)
          /\ delivered' = Append(delivered, Head(q_))
          /\ CGo("ltc_notify", ch, ct, Head(q_), cspin)
  /\ HKeepC /\ UNCHANGED <<pvars, kvars>>
  /\ UNCHANGED <<variant, capacity_, ctor, mm, buffer_, head_, tail_, closed_, size_>>

SimpleTryPopNotify ==
  /\ variant = "simple" /\ cpc = "ltc_notify"
  /\ ppc' = NotifiedProducerCv(ppc)
  /\ CRet(cval)
  /\ UNCHANGED <<pop_, pitem, pt, ph, pspin, pres, pcalls>>
  /\ UNCHANGED <<qvars, kvars, hvars>>

SimplePopCall == variant = "simple" /\ CCall("pop", "lc_lock")

SimplePopLock ==
  /\ variant = "simple" /\ cpc \in {"lc_lock", "lc_relock"} /\ mtx_ = "free"
  /\ mtx_' = "C"
  /\ CGo("lc_pred", ch, ct, cval, cspin)
  /\ QKeepMtx /\ UNCHANGED <<pvars, kvars, hvars>>

\* line 65, consumer_cv_.wait(lock, pred)
SimplePopPred ==
  /\ variant = "simple" /\ cpc = "lc_pred" /\ mtx_ = "C"
  /\ IF PopPredicate
     THEN CGo("lc_pop", ch, ct, cval, cspin) /\ mtx_' = mtx_
     ELSE CGo("lc_cvwait", ch, ct, cval, cspin) /\ mtx_' = "free"
  /\ QKeepMtx /\ UNCHANGED <<pvars, kvars, hvars>>

SimplePopLocked ==
  /\ variant = "simple" /\ cpc = "lc_pop" /\ mtx_ = "C"
  /\ mtx_' = "free"
  /\ IF LockedPopEmpty
     THEN /\ CRet(Empty)
          /\ UNCHANGED <<q_, delivered>>
     ELSE /\ q_' = Tail(q_)
          /\ delivered' = Append(delivered, Head(q_))
          /\ CGo("lc_notify", ch, ct, Head(q_), cspin)
  /\ HKeepC /\ UNCHANGED <<pvars, kvars>>
  /\ UNCHANGED <<variant, capacity_, ctor, mm, buffer_, head_, tail_, closed_, size_>>

SimplePopNotify ==
  /\ variant = "simple" /\ cpc = "lc_notify"
  /\ ppc' = NotifiedProducerCv(ppc)
  /\ CRet(cval)
  /\ UNCHANGED <<pop_, pitem, pt, ph, pspin, pres, pcalls>>
  /\ UNCHANGED <<qvars, kvars, hvars>>

\* a consumer blocked in consumer_cv_ wakes spuriously
SimplePopSpurious ==
  /\ variant = "simple" /\ cpc = "lc_cvwait"
  /\ CGo("lc_relock", ch, ct, cval, cspin)
  /\ UNCHANGED <<qvars, pvars, kvars, hvars>>

SimpleCloseCall == variant = "simple" /\ KCall("lk_lock")

SimpleCloseLock ==
  /\ variant = "simple" /\ kpc = "lk_lock" /\ mtx_ = "free"
  /\ mtx_' = "K"
  /\ kpc' = "lk_set"
  /\ QKeepMtx /\ UNCHANGED <<ncloses, pvars, cvars, hvars>>

\* lines 83-85: closed_ = true, then the lock_guard releases the mutex
SimpleCloseSet ==
  /\ variant = "simple" /\ kpc = "lk_set" /\ mtx_ = "K"
  /\ closed_' = TRUE
  /\ mtx_' = "free"
  /\ KMark
  /\ kpc' = "lk_ncons"
  /\ UNCHANGED <<ncloses, accepted, delivered, closeDone, closedQuiet,
                 pAfterClose, pWokenByClose, cAfterQuiet, cAfterClose, ref>>
  /\ UNCHANGED <<pvars, cvars>>
  /\ UNCHANGED <<variant, capacity_, ctor, mm, buffer_, head_, tail_, size_, q_>>

SimpleCloseNotifyConsumer ==
  /\ variant = "simple" /\ kpc = "lk_ncons"
  /\ cpc' = NotifiedConsumerCv(cpc)
  /\ kpc' = "lk_nprod"
  /\ UNCHANGED <<cop, ch, ct, cval, cspin, cres>>
  /\ UNCHANGED <<ncloses, qvars, pvars, hvars>>

SimpleCloseNotifyProducer ==
  /\ variant = "simple" /\ kpc = "lk_nprod"
  /\ ppc' = NotifiedProducerCv(ppc)
  /\ pWokenByClose' = (pWokenByClose \/ ppc = "lp_cvwait")
  /\ KRet
  /\ UNCHANGED <<pop_, pitem, pt, ph, pspin, pres, pcalls>>
  /\ UNCHANGED <<accepted, delivered, pInFlightAtClose, pAfterClose,
                 cAfterQuiet, cAfterClose, ref>>
  /\ UNCHANGED <<qvars, cvars>>

SimpleProducer ==
  \/ SimpleTryPushCall \/ SimpleTryPushLock \/ SimpleTryPushLocked
  \/ SimpleTryPushNotify
  \/ SimplePushCall \/ SimplePushLock \/ SimplePushPred \/ SimplePushLocked
  \/ SimplePushNotify

SimpleConsumer ==
  \/ SimpleTryPopCall \/ SimpleTryPopLock \/ SimpleTryPopLocked
  \/ SimpleTryPopNotify
  \/ SimplePopCall \/ SimplePopLock \/ SimplePopPred \/ SimplePopLocked
  \/ SimplePopNotify

SimpleCloser == SimpleCloseCall \/ SimpleCloseLock \/ SimpleCloseSet
                \/ SimpleCloseNotifyConsumer \/ SimpleCloseNotifyProducer

SimpleSpurious == SimplePushSpurious \/ SimplePopSpurious

NextSimple == SimpleProducer \/ SimpleConsumer \/ SimpleCloser
              \/ SimpleSpurious

InitSimple == Init /\ variant = "simple"
SpecSimple == InitSimple /\ [][NextSimple]_vars

\* ======================================================================
\* counter-wait variant: atomic_counter_spsc_queue.hpp
\* head_ and tail_ are plain members private to the consumer and the
\* producer; size_ is the shared atomic counter both sides wait on.
\* buffer_ is only reserve()d (line 31); its slots are used as the allocated
\* storage they are.  A slot is a plain object: a write and a read of it by
\* the two threads are two steps that may come in either order.
\* ======================================================================
\* lines 47, 85, 103, 139: the positions wrap modulo capacity_
CounterNext(i) == (i + 1) % capacity_
\* size_.fetch_add(1) and size_.fetch_sub(1) on an unsigned counter
SizeAdd(n) == (n + 1) % SizeMod
SizeSub(n) == (n - 1 + SizeMod) % SizeMod
\* a full test that lets one item too many in
CounterFullOffByOne(n) == n > capacity_
\* lines 41, 66, 71: the queue is observed full
CounterFull(n) == n >= capacity_

\* size_.notify_one() / notify_all() reaching a producer blocked in size_.wait
NotifiedOnSizeP(pc) == IF pc = "cp_blocked" THEN "cp_wait" ELSE pc
\* a size_ notification that reaches no waiting consumer
NotifiedOnSizeCLost(pc) == pc
\* size_.notify_one() / notify_all() reaching a consumer blocked in size_.wait
NotifiedOnSizeC(pc) == IF pc = "cc_blocked" THEN "cc_wait" ELSE pc

CounterTryPushCall == variant = "counter" /\ PCall("try_push", "ctp_size")

\* line 41, left operand: size() >= capacity_
CounterTryPushSize ==
  /\ variant = "counter" /\ ppc = "ctp_size"
  /\ IF CounterFull(size_) THEN PRet("false")
     ELSE PGo("ctp_closed", pt, ph, pspin)
  /\ UNCHANGED <<qvars, cvars, kvars, hvars>>

\* line 41, right operand: closed_.load()
CounterTryPushClosed ==
  /\ variant = "counter" /\ ppc = "ctp_closed"
  /\ IF closed_ THEN PRet("false") ELSE PGo("ctp_write", pt, ph, pspin)
  /\ UNCHANGED <<qvars, cvars, kvars, hvars>>

\* lines 46-47: the slot is written and the private tail_ advances
CounterTryPushWrite ==
  /\ variant = "counter" /\ ppc = "ctp_write"
  /\ buffer_' = [buffer_ EXCEPT ![tail_] = pitem]
  /\ tail_' = CounterNext(tail_)
  /\ PGo("ctp_add", pt, ph, pspin)
  /\ UNCHANGED <<cvars, kvars, hvars>>
  /\ UNCHANGED <<variant, capacity_, ctor, mm, head_, closed_, size_, q_, mtx_>>

CounterTryPushAdd ==
  /\ variant = "counter" /\ ppc = "ctp_add"
  /\ size_' = SizeAdd(size_)
  /\ accepted' = Append(accepted, pitem)
  /\ PGo("ctp_notify", pt, ph, pspin)
  /\ HKeepP /\ UNCHANGED <<cvars, kvars>>
  /\ UNCHANGED <<variant, capacity_, ctor, mm, buffer_, head_, tail_, closed_, q_, mtx_>>

CounterTryPushNotify ==
  /\ variant = "counter" /\ ppc = "ctp_notify"
  /\ cpc' = NotifiedOnSizeC(cpc)
  /\ PRet("true")
  /\ UNCHANGED <<cop, ch, ct, cval, cspin, cres>>
  /\ UNCHANGED <<qvars, kvars, hvars>>

CounterPushCall == variant = "counter" /\ PCall("push", "cp_closed")

\* line 59
CounterPushClosed ==
  /\ variant = "counter" /\ ppc = "cp_closed"
  /\ IF closed_ THEN PRet("false") ELSE PGo("cp_size", pt, ph, pspin)
  /\ UNCHANGED <<qvars, cvars, kvars, hvars>>

\* line 66
CounterPushSize ==
  /\ variant = "counter" /\ ppc = "cp_size"
  /\ IF CounterFull(size_) THEN PGo("cp_sload", pt, ph, pspin)
     ELSE PGo("cp_write", pt, ph, pspin)
  /\ UNCHANGED <<qvars, cvars, kvars, hvars>>

\* lines 70 and 80, s = size(), followed by the loop test of line 71
CounterPushLoad ==
  /\ variant = "counter" /\ ppc = "cp_sload"
  /\ IF CounterFull(size_) THEN PGo("cp_lclosed", pt, size_, pspin)
     ELSE PGo("cp_write", pt, size_, pspin)
  /\ UNCHANGED <<qvars, cvars, kvars, hvars>>

\* line 73
CounterPushLoopClosed ==
  /\ variant = "counter" /\ ppc = "cp_lclosed"
  /\ IF closed_ THEN PRet("false") ELSE PGo("cp_wait", pt, ph, pspin)
  /\ UNCHANGED <<qvars, cvars, kvars, hvars>>

\* line 78, size_.wait(s)
CounterPushWait ==
  /\ variant = "counter" /\ ppc = "cp_wait"
  /\ IF size_ # ph THEN PGo("cp_sload", pt, ph, pspin)
     ELSE PGo("cp_blocked", pt, ph, pspin)
  /\ UNCHANGED <<qvars, cvars, kvars, hvars>>

CounterPushSpurious ==
  /\ variant = "counter" /\ ppc = "cp_blocked"
  /\ PGo("cp_wait", pt, ph, pspin)
  /\ UNCHANGED <<qvars, cvars, kvars, hvars>>

\* lines 84-85
CounterPushWrite ==
  /\ variant = "counter" /\ ppc = "cp_write"
  /\ buffer_' = [buffer_ EXCEPT ![tail_] = pitem]
  /\ tail_' = CounterNext(tail_)
  /\ PGo("cp_add", pt, ph, pspin)
  /\ UNCHANGED <<cvars, kvars, hvars>>
  /\ UNCHANGED <<variant, capacity_, ctor, mm, head_, closed_, size_, q_, mtx_>>

CounterPushAdd ==
  /\ variant = "counter" /\ ppc = "cp_add"
  /\ size_' = SizeAdd(size_)
  /\ accepted' = Append(accepted, pitem)
  /\ PGo("cp_notify", pt, ph, pspin)
  /\ HKeepP /\ UNCHANGED <<cvars, kvars>>
  /\ UNCHANGED <<variant, capacity_, ctor, mm, buffer_, head_, tail_, closed_, q_, mtx_>>

CounterPushNotify ==
  /\ variant = "counter" /\ ppc = "cp_notify"
  /\ cpc' = NotifiedOnSizeC(cpc)
  /\ PRet("true")
  /\ UNCHANGED <<cop, ch, ct, cval, cspin, cres>>
  /\ UNCHANGED <<qvars, kvars, hvars>>

CounterTryPopCall == variant = "counter" /\ CCall("try_pop", "ctc_size")

\* line 97, left operand: size() == 0
CounterTryPopSize ==
  /\ variant = "counter" /\ cpc = "ctc_size"
  /\ IF size_ = 0 THEN CRet(Empty) ELSE CGo("ctc_closed", ch, ct, cval, cspin)
  /\ UNCHANGED <<qvars, pvars, kvars, hvars>>

\* line 97, right operand: closed_.load()
CounterTryPopClosed ==
  /\ variant = "counter" /\ cpc = "ctc_closed"
  /\ IF closed_ THEN CRet(Empty) ELSE CGo("ctc_read", ch, ct, cval, cspin)
  /\ UNCHANGED <<qvars, pvars, kvars, hvars>>

\* lines 102-103: the slot is copied out and the private head_ advances
CounterTryPopRead ==
  /\ variant = "counter" /\ cpc = "ctc_read"
  /\ head_' = CounterNext(head_)
  /\ CGo("ctc_sub", ch, ct, buffer_[head_], cspin)
  /\ UNCHANGED <<pvars, kvars, hvars>>
  /\ UNCHANGED <<variant, capacity_, ctor, mm, buffer_, tail_, closed_, size_, q_, mtx_>>

CounterTryPopSub ==
  /\ variant = "counter" /\ cpc = "ctc_sub"
  /\ size_' = SizeSub(size_)
  /\ delivered' = Append(delivered, cval)
  /\ CGo("ctc_notify", ch, ct, cval, cspin)
  /\ HKeepC /\ UNCHANGED <<pvars, kvars>>
  /\ UNCHANGED <<variant, capacity_, ctor, mm, buffer_, head_, tail_, closed_, q_, mtx_>>

CounterTryPopNotify ==
  /\ variant = "counter" /\ cpc = "ctc_notify"
  /\ ppc' = NotifiedOnSizeP(ppc)
  /\ CRet(cval)
  /\ UNCHANGED <<pop_, pitem, pt, ph, pspin, pres, pcalls>>
  /\ UNCHANGED <<qvars, kvars, hvars>>

CounterPopCall == variant = "counter" /\ CCall("pop", "cc_closed")

\* line 113
CounterPopClosed ==
  /\ variant = "counter" /\ cpc = "cc_closed"
  /\ IF closed_ THEN CRet(Empty) ELSE CGo("cc_size", ch, ct, cval, cspin)
  /\ UNCHANGED <<qvars, pvars, kvars, hvars>>

\* line 120
CounterPopSize ==
  /\ variant = "counter" /\ cpc = "cc_size"
  /\ IF size_ = 0 THEN CGo("cc_sload", ch, ct, cval, cspin)
     ELSE CGo("cc_read", ch, ct, cval, cspin)
  /\ UNCHANGED <<qvars, pvars, kvars, hvars>>

\* lines 124 and 134, s = size(), followed by the loop test of line 125
CounterPopLoad ==
  /\ variant = "counter" /\ cpc = "cc_sload"
  /\ IF size_ = 0 THEN CGo("cc_lclosed", ch, size_, cval, cspin)
     ELSE CGo("cc_read", ch, size_, cval, cspin)
  /\ UNCHANGED <<qvars, pvars, kvars, hvars>>

\* line 127
CounterPopLoopClosed ==
  /\ variant = "counter" /\ cpc = "cc_lclosed"
  /\ IF closed_ THEN CRet(Empty) ELSE CGo("cc_wait", ch, ct, cval, cspin)
  /\ UNCHANGED <<qvars, pvars, kvars, hvars>>

\* line 132, size_.wait(s)
CounterPopWait ==
  /\ variant = "counter" /\ cpc = "cc_wait"
  /\ IF size_ # ct THEN CGo("cc_sload", ch, ct, cval, cspin)
     ELSE CGo("cc_blocked", ch, ct, cval, cspin)
  /\ UNCHANGED <<qvars, pvars, kvars, hvars>>

CounterPopSpurious ==
  /\ variant = "counter" /\ cpc = "cc_blocked"
  /\ CGo("cc_wait", ch, ct, cval, cspin)
  /\ UNCHANGED <<qvars, pvars, kvars, hvars>>

\* lines 138-139
CounterPopRead ==
  /\ variant = "counter" /\ cpc = "cc_read"
  /\ head_' = CounterNext(head_)
  /\ CGo("cc_sub", ch, ct, buffer_[head_], cspin)
  /\ UNCHANGED <<pvars, kvars, hvars>>
  /\ UNCHANGED <<variant, capacity_, ctor, mm, buffer_, tail_, closed_, size_, q_, mtx_>>

CounterPopSub ==
  /\ variant = "counter" /\ cpc = "cc_sub"
  /\ size_' = SizeSub(size_)
  /\ delivered' = Append(delivered, cval)
  /\ CGo("cc_notify", ch, ct, cval, cspin)
  /\ HKeepC /\ UNCHANGED <<pvars, kvars>>
  /\ UNCHANGED <<variant, capacity_, ctor, mm, buffer_, head_, tail_, closed_, q_, mtx_>>

CounterPopNotify ==
  /\ variant = "counter" /\ cpc = "cc_notify"
  /\ ppc' = NotifiedOnSizeP(ppc)
  /\ CRet(cval)
  /\ UNCHANGED <<pop_, pitem, pt, ph, pspin, pres, pcalls>>
  /\ UNCHANGED <<qvars, kvars, hvars>>

CounterCloseCall == variant = "counter" /\ KCall("ck_closed")

\* line 158
CounterCloseStore ==
  /\ variant = "counter" /\ kpc = "ck_closed"
  /\ closed_' = TRUE
  /\ KMark
  /\ kpc' = "ck_size"
  /\ UNCHANGED <<ncloses, accepted, delivered, closeDone, closedQuiet,
                 pAfterClose, pWokenByClose, cAfterQuiet, cAfterClose, ref>>
  /\ UNCHANGED <<pvars, cvars>>
  /\ UNCHANGED <<variant, capacity_, ctor, mm, buffer_, head_, tail_, size_, q_, mtx_>>

\* line 159
CounterCloseReset ==
  /\ variant = "counter" /\ kpc = "ck_size"
  /\ size_' = 0
  /\ kpc' = "ck_notify"
  /\ UNCHANGED <<ncloses, pvars, cvars, hvars>>
  /\ UNCHANGED <<variant, capacity_, ctor, mm, buffer_, head_, tail_, closed_, q_, mtx_>>

\* line 160
CounterCloseNotify ==
  /\ variant = "counter" /\ kpc = "ck_notify"
  /\ ppc' = NotifiedOnSizeP(ppc)
  /\ cpc' = NotifiedOnSizeC(cpc)
  /\ pWokenByClose' = (pWokenByClose \/ ppc = "cp_blocked")
  /\ KRet
  /\ UNCHANGED <<pop_, pitem, pt, ph, pspin, pres, pcalls>>
  /\ UNCHANGED <<cop, ch, ct, cval, cspin, cres>>
  /\ UNCHANGED <<accepted, delivered, pInFlightAtClose, pAfterClose,
                 cAfterQuiet, cAfterClose, ref>>
  /\ UNCHANGED qvars

CounterProducer ==
  \/ CounterTryPushCall \/ CounterTryPushSize \/ CounterTryPushClosed
  \/ CounterTryPushWrite \/ CounterTryPushAdd \/ CounterTryPushNotify
  \/ CounterPushCall \/ CounterPushClosed \/ CounterPushSize
  \/ CounterPushLoad \/ CounterPushLoopClosed \/ CounterPushWait
  \/ CounterPushWrite \/ CounterPushAdd \/ CounterPushNotify

CounterConsumer ==
  \/ CounterTryPopCall \/ CounterTryPopSize \/ CounterTryPopClosed
  \/ CounterTryPopRead \/ CounterTryPopSub \/ CounterTryPopNotify
  \/ CounterPopCall \/ CounterPopClosed \/ CounterPopSize
  \/ CounterPopLoad \/ CounterPopLoopClosed \/ CounterPopWait
  \/ CounterPopRead \/ CounterPopSub \/ CounterPopNotify

CounterCloser == CounterCloseCall \/ CounterCloseStore \/ CounterCloseReset
                 \/ CounterCloseNotify

CounterSpurious == CounterPushSpurious \/ CounterPopSpurious

NextCounter == CounterProducer \/ CounterConsumer \/ CounterCloser
               \/ CounterSpurious

InitCounter == Init /\ variant = "counter"
SpecCounter == InitCounter /\ [][NextCounter]_vars

\* ======================================================================
\* all four variants
\* ======================================================================
Next == NextSimple \/ NextCounter \/ NextSpin \/ NextWait
Spec == Init /\ [][Next]_vars

\* ======================================================================
\* properties
\* ======================================================================
IsPrefix(a, b) ==
  /\ Len(a) <= Len(b)
  /\ \A i \in 1..Len(a) : a[i] = b[i]

Resident == Len(accepted) - Len(delivered)

\* C1: in every variant the items handed to the consumer so far are a
\* prefix of the items accepted from the producer so far.
C1_DeliveredPrefixOfAccepted == IsPrefix(delivered, accepted)

\* C3: in every variant the number of items accepted and not yet taken out
\* never exceeds the capacity.
C3_ResidentAtMostCapacity == Resident <= capacity_

RingVariants == {"spin", "wait"}

\* C2: in the busy-spin and wait-notify variants a pop() returns empty only
\* when the queue is closed, and, when no producer call was in flight at the
\* moment the closed flag went up (the producer closes after its pushes),
\* only when every accepted item has been delivered.
C2_PopEmptyOnlyClosedAndDrained ==
  (variant \in RingVariants /\ cpc = "done" /\ cop = "pop" /\ cres = Empty)
    => (closed_ /\ (~pInFlightAtClose => delivered = accepted))

\* C4: in the wait-notify variant, once a close() has returned, a pop() in
\* progress eventually returns unless the producer starts a call, and a
\* push() in progress eventually returns unless the consumer starts one.
C4_WaitCloseReleasesWaiters ==
  /\ (variant = "wait" /\ closeDone /\ cop = "pop" /\ ~CIdle /\ PIdle)
       ~> (CIdle \/ ~PIdle)
  /\ (variant = "wait" /\ closeDone /\ pop_ = "push" /\ ~PIdle /\ CIdle)
       ~> (PIdle \/ ~CIdle)

\* C5: in the lock-based, busy-spin and wait-notify variants, a pop() or
\* try_pop() called after a close() that returned with no call in progress
\* returns the oldest undelivered item, and returns empty only when every
\* accepted item has been delivered.
C5_DrainAfterQuietClose ==
  (variant \in {"simple", "spin", "wait"} /\ cAfterQuiet /\ cpc = "done")
    => /\ cres = Empty => delivered = accepted
       /\ cres # Empty => (/\ Len(delivered) >= 1
                           /\ Len(delivered) <= Len(accepted)
                           /\ cres = accepted[Len(delivered)])
       /\ IsPrefix(delivered, accepted)

\* C5 witness: after a quiet close with two items buffered, both have been
\* popped and a further call has returned empty.
C5_Witness ==
  (variant = "wait" /\ cAfterQuiet /\ cpc = "done" /\ cres = Empty
    /\ Len(delivered) >= 2 /\ delivered = accepted)

\* C6: in the counter-wait variant, a pop() or try_pop() called after a
\* close() that returned with no call in progress returns empty only when
\* every accepted item has been delivered.
C6_CounterDrainAfterClose ==
  (variant = "counter" /\ cAfterQuiet /\ cpc = "done" /\ cres = Empty)
    => delivered = accepted

\* C7: in the counter-wait variant, a push() that was blocked on a full
\* queue and woken by close() returns false and its item is not accepted.
C7_CounterPushWokenByCloseFails ==
  (variant = "counter" /\ pop_ = "push" /\ pWokenByClose)
    => /\ ppc = "done" => pres = "false"
       /\ \A i \in 1..Len(accepted) : accepted[i] # pitem

\* C8: in the counter-wait variant, a pop() blocked on the counter value 0
\* eventually returns once a close() has returned, unless the producer
\* starts a call.
C8_CounterCloseReleasesPop ==
  (variant = "counter" /\ closeDone /\ cop = "pop" /\ cpc = "cc_blocked"
     /\ ct = 0 /\ PIdle)
    ~> (CIdle \/ ~PIdle)

\* C9: in the lock-based variant pop() returns empty only when the queue is
\* closed and the deque is empty, every accepted item having been delivered.
C9_SimplePopEmptyOnlyClosedEmpty ==
  (variant = "simple" /\ cpc = "done" /\ cop = "pop" /\ cres = Empty)
    => (closed_ /\ q_ = <<>> /\ delivered = accepted)

\* C9 witness: a lock-based pop() has returned empty after an item went
\* through the queue.
C9_Witness ==
  (variant = "simple" /\ cpc = "done" /\ cop = "pop" /\ cres = Empty
    /\ Len(delivered) >= 1)

AnyProducerStep ==
  \/ SimpleProducer \/ SimplePushSpurious
  \/ CounterProducer \/ CounterPushSpurious
  \/ SpinProducer
  \/ WaitProducer \/ WaitPushSpurious

\* C10: in every variant a push() or try_push() called after a close() has
\* returned returns false, and no step of it changes the buffered items,
\* the positions or the counter.
C10_PushAfterCloseFails ==
  /\ [](pAfterClose /\ ppc = "done" => pres = "false")
  /\ [][(AnyProducerStep /\ pAfterClose')
          => UNCHANGED <<buffer_, q_, head_, tail_, size_, accepted>>]_vars

\* C10 witness: a push() called after close() on a queue holding an item
\* has returned false.
C10_Witness ==
  (pAfterClose /\ ppc = "done" /\ pop_ = "push" /\ pres = "false"
    /\ Resident >= 1)

\* ======================================================================
\* fair scheduling: a thread inside a call keeps taking its steps; nobody
\* is obliged to start a call, and spurious unblocks are not guaranteed
\* ======================================================================
WaitProducerRun == WaitProducer /\ ~PIdle
WaitConsumerRun == WaitConsumer /\ ~CIdle
WaitCloserRun == WaitCloser /\ kpc \notin {"idle", "done"}
FairSpecWait ==
  /\ SpecWait
  /\ WF_vars(WaitProducerRun) /\ WF_vars(WaitConsumerRun)
  /\ WF_vars(WaitCloserRun)

CounterProducerRun == CounterProducer /\ ~PIdle
CounterConsumerRun == CounterConsumer /\ ~CIdle
CounterCloserRun == CounterCloser /\ kpc \notin {"idle", "done"}
FairSpecCounter ==
  /\ SpecCounter
  /\ WF_vars(CounterProducerRun) /\ WF_vars(CounterConsumerRun)
  /\ WF_vars(CounterCloserRun)

SimpleProducerRun == SimpleProducer /\ ~PIdle
SimpleConsumerRun == SimpleConsumer /\ ~CIdle
SimpleCloserRun == SimpleCloser /\ kpc \notin {"idle", "done"}
SpinProducerRun == SpinProducer /\ ~PIdle
SpinConsumerRun == SpinConsumer /\ ~CIdle
SpinCloserRun == SpinCloser /\ kpc \notin {"idle", "done"}

\* Every thread that can take a step eventually takes one; a thread that
\* contends for mtx_ acquires it eventually (strong fairness, since the
\* lock step is disabled whenever another thread holds the mutex).
\* Spurious wake-ups carry no fairness.
ProducerRun == SimpleProducerRun \/ CounterProducerRun \/ SpinProducerRun
               \/ WaitProducerRun
ConsumerRun == SimpleConsumerRun \/ CounterConsumerRun \/ SpinConsumerRun
               \/ WaitConsumerRun
CloserRun == SimpleCloserRun \/ CounterCloserRun \/ SpinCloserRun
             \/ WaitCloserRun
Fairness == SF_vars(ProducerRun) /\ SF_vars(ConsumerRun) /\ SF_vars(CloserRun)
FairSpec == Spec /\ Fairness

\* C11: in every variant, while the queue stays open, a pop() in progress
\* with an accepted item undelivered eventually returns an item.
C11_PopReturnsPublishedItem ==
  (cop = "pop" /\ ~CIdle /\ Resident >= 1 /\ ~closed_)
    ~> ((cpc = "done" /\ cres # Empty) \/ closed_)

\* C11 witness: a wait-notify pop() is blocked in tail_.wait on the open
\* queue while the producer has published an item and not yet notified.
C11_Witness ==
  variant = "wait" /\ cop = "pop" /\ cpc = "wc_blocked" /\ ~closed_
  /\ Resident >= 1 /\ ppc \in {"wp_notify", "wtp_notify"}

\* C12: in every variant, while the queue stays open, a push() in progress
\* with room in the queue eventually stores its item and returns true.
C12_PushStoresOnceRoom ==
  (pop_ = "push" /\ ~PIdle /\ Resident < capacity_ /\ ~closed_)
    ~> ((ppc = "done" /\ pres = "true") \/ closed_)

\* C12 witness: a wait-notify push() is blocked in head_.wait on the open
\* queue while the consumer has freed a slot and not yet notified.
C12_Witness ==
  variant = "wait" /\ pop_ = "push" /\ ppc = "wp_blocked" /\ ~closed_
  /\ Resident < capacity_ /\ cpc \in {"wc_notify", "wtc_notify"}

\* ----------------------------------------------------------------------
\* The producer/consumer pipeline of the blocking functional test: the
\* producer push()es MaxCalls items, the consumer pop()s until it has
\* received them all, and nobody closes the queue.
\* ----------------------------------------------------------------------
PipePushCall ==
  SimplePushCall \/ CounterPushCall \/ SpinPushCall \/ WaitPushCall
PipePushSteps ==
  \/ SimplePushLock \/ SimplePushPred \/ SimplePushLocked \/ SimplePushNotify
  \/ CounterPushClosed \/ CounterPushSize \/ CounterPushLoad
  \/ CounterPushLoopClosed \/ CounterPushWait \/ CounterPushWrite
  \/ CounterPushAdd \/ CounterPushNotify
  \/ SpinPushClosed \/ SpinPushFull \/ SpinPushWrite \/ SpinPushStore
  \/ WaitPushClosed \/ WaitPushFull \/ WaitPushWrite \/ WaitPushStore
  \/ WaitPushNotify \/ WaitPushWait
PipePopCall ==
  /\ Len(delivered) < MaxCalls
  /\ (SimplePopCall \/ CounterPopCall \/ SpinPopCall \/ WaitPopCall)
PipePopSteps ==
  \/ SimplePopLock \/ SimplePopPred \/ SimplePopLocked \/ SimplePopNotify
  \/ CounterPopClosed \/ CounterPopSize \/ CounterPopLoad
  \/ CounterPopLoopClosed \/ CounterPopWait \/ CounterPopRead
  \/ CounterPopSub \/ CounterPopNotify
  \/ SpinPopEmpty \/ SpinPopRead \/ SpinPopStore \/ SpinPopClosed
  \/ WaitPopEmpty \/ WaitPopRead \/ WaitPopStore \/ WaitPopNotify
  \/ WaitPopClosed \/ WaitPopWait
PipeSpurious == SimpleSpurious \/ CounterSpurious \/ WaitSpurious
PipeProducer == PipePushCall \/ PipePushSteps
PipeConsumer == PipePopCall \/ PipePopSteps
NextPipe == PipeProducer \/ PipeConsumer \/ PipeSpurious
SpecPipe ==
  Init /\ [][NextPipe]_vars /\ SF_vars(PipeProducer) /\ SF_vars(PipeConsumer)

PipeItems == [i \in 1..MaxCalls |-> i]

FairSpecSimple == SpecSimple /\ Fairness

\* C14: in the lock-based variant, a push() waiting on the full queue when
\* close() sets closed_ eventually returns false, and a pop() waiting on the
\* empty queue when close() sets closed_ eventually returns empty.
C14_SimpleCloseReleasesWaiters ==
  /\ (variant = "simple" /\ closed_ /\ pop_ = "push" /\ ppc = "lp_cvwait")
       ~> (ppc = "done" /\ pres = "false")
  /\ (variant = "simple" /\ closed_ /\ cop = "pop" /\ cpc = "lc_cvwait"
      /\ q_ = <<>>)
       ~> (cpc = "done" /\ cres = Empty)

\* C14 witness: close() has set closed_ and is about to notify while push()
\* waits on the full queue; likewise for pop() on the empty queue.
C14_Witness ==
  /\ variant = "simple" /\ closed_ /\ kpc = "lk_ncons"
  /\ \/ pop_ = "push" /\ ppc = "lp_cvwait" /\ Len(q_) = capacity_
     \/ cop = "pop" /\ cpc = "lc_cvwait" /\ q_ = <<>>

\* ----------------------------------------------------------------------
\* the two busy-spin classes together
\* ----------------------------------------------------------------------
TailHeadProducerRun == TailHeadProducer /\ ~PIdle
TailHeadConsumerRun == TailHeadConsumer /\ ~CIdle
TailHeadCloserRun == TailHeadCloser /\ kpc \notin {"idle", "done"}
NextBusySpin == NextSpin \/ NextTailHead
SpecBusySpin == (InitSpin \/ InitTailHead) /\ [][NextBusySpin]_vars
FairSpecBusySpin ==
  /\ SpecBusySpin
  /\ WF_vars(SpinProducerRun \/ TailHeadProducerRun)
  /\ WF_vars(SpinConsumerRun \/ TailHeadConsumerRun)
  /\ WF_vars(SpinCloserRun \/ TailHeadCloserRun)

\* C15: in the busy-spin classes, once closed_ is set, a push() spinning on
\* the full queue returns false with its item not stored unless the consumer
\* starts a call, and a pop() spinning on the empty queue returns empty
\* unless the producer starts a call.
C15_SpinCloseReleasesSpinners ==
  /\ (closed_ /\ pop_ = "push" /\ ~PIdle /\ Resident = capacity_ /\ CIdle)
       ~> ((ppc = "done" /\ pres = "false") \/ ~CIdle)
  /\ (closed_ /\ cop = "pop" /\ ~CIdle /\ Resident = 0 /\ PIdle)
       ~> ((cpc = "done" /\ cres = Empty) \/ ~PIdle)
  /\ [](ppc = "done" /\ pres = "false"
        => \A i \in 1..Len(accepted) : accepted[i] # pcalls)

\* C15 witness: closed_ is set while push() has gone round its loop on the
\* full queue, the consumer being idle.
C15_Witness ==
  /\ variant = "spin" /\ closed_ /\ pop_ = "push" /\ ppc = "sp_closed"
  /\ pspin >= 1 /\ Resident = capacity_ /\ CIdle

\* positions at which a call is suspended: waiting on a condition variable
\* or inside std::atomic::wait
SuspendedP == {"lp_cvwait", "lp_relock", "wp_wait", "wp_blocked", "cp_wait",
               "cp_blocked"}
SuspendedC == {"lc_cvwait", "lc_relock", "wc_wait", "wc_blocked", "cc_wait",
               "cc_blocked"}

\* C16: in every variant a push() or pop() that begins after a close() has
\* returned never waits and never goes round its spin loop, and it returns:
\* push() false, pop() an accepted item or empty.
C16_AfterCloseNeverSuspends ==
  /\ [](pAfterClose /\ pop_ = "push" => ppc \notin SuspendedP /\ pspin = 0)
  /\ [](cAfterClose /\ cop = "pop" => cpc \notin SuspendedC)
  /\ [][cAfterClose /\ cop = "pop" /\ cpc = "sc_closed"
          => cpc' # "sc_empty"]_vars
  /\ (pAfterClose /\ pop_ = "push" /\ ~PIdle) ~> (ppc = "done")
  /\ (cAfterClose /\ cop = "pop" /\ ~CIdle) ~> (cpc = "done")
  /\ [](pAfterClose /\ pop_ = "push" /\ ppc = "done" => pres = "false")
  /\ [](cAfterClose /\ cop = "pop" /\ cpc = "done"
        => \/ cres = Empty
           \/ \E i \in 1..Len(accepted) : accepted[i] = cres)

\* C16 witness: a push() begun after close() returned has come back from the
\* full queue while a pop() begun after close() is taking an item out.
C16_Witness ==
  /\ pAfterClose /\ pop_ = "push" /\ ppc = "done" /\ pres = "false"
  /\ cAfterClose /\ cop = "pop" /\ ~CIdle /\ Resident = capacity_

\* C17: as long as the calls come one after the other and none has to
\* wait, every call of the busy-spin and of the wait-notify queue returns
\* what the same call returns on the lock-based queue run through the same
\* sequence (the lock-based model itself is held against that run too).
C17_RingsReturnAsLockBased ==
  (variant \in {"simple", "spin", "wait"} /\ ref.seq)
    => /\ ppc = "done" => pres = ref.p
       /\ cpc = "done" => cres = ref.c

\* C17 witness: on the wait-notify queue, one call after the other, a push
\* was refused after close() and a pop() then returned a buffered item.
C17_Witness ==
  /\ variant = "wait" /\ ref.seq /\ ref.closed /\ KIdle
  /\ ppc = "done" /\ pres = "false" /\ pop_ = "push"
  /\ cpc = "done" /\ cres >= 1 /\ cop = "pop"

\* the step of try_push() that reads the consumer's position (head_, size_,
\* or q_.size() under the mutex)
TryPushReadsConsumer ==
  /\ pop_ = "try_push" /\ ppc \in {"ltp_push", "ctp_size", "stp_full", "wtp_full"}
  /\ ppc' # ppc

\* C18: in every variant, a try_push() that reads the consumer's position
\* while the queue is open is refused at that step exactly when capacity_
\* items are resident; a try_push() is refused only on a full or closed
\* queue; on a fresh open queue nothing has been taken from, the try_push()
\* calls up to the capacity_-th return true and the next one false.
C18_TryPushTrueIffRoom ==
  /\ [][TryPushReadsConsumer /\ ~closed_
          => ((ppc' = "done" /\ pres' = "false") <=> Resident >= capacity_)]_vars
  /\ [][pop_ = "try_push" /\ ~PIdle /\ ppc' = "done" /\ pres' = "false"
          => (closed_ \/ Resident >= capacity_)]_vars
  /\ [](pop_ = "try_push" /\ ppc = "done" /\ ncloses = 0 /\ delivered = <<>>
        => (pres = "true" <=> pcalls <= capacity_))

\* C18 witness: on a fresh open queue the try_push() after the capacity_-th
\* has been refused.
C18_Witness ==
  /\ pop_ = "try_push" /\ ppc = "done" /\ pres = "false" /\ ncloses = 0
  /\ delivered = <<>> /\ pcalls = capacity_ + 1 /\ Resident = capacity_

\* the step of try_pop() that reads the producer's position (tail_, or q_
\* under the mutex)
TryPopReadsProducer ==
  /\ cop = "try_pop" /\ cpc \in {"ltc_pop", "stc_empty", "wtc_empty"}
  /\ cpc' # cpc

\* C19: in the lock-based, busy-spin and wait-notify variants, closed or not,
\* a try_pop() returns empty exactly when no accepted item is resident at
\* the step that reads the producer's position, and at no other step.
C19_TryPopEmptyIffNoneResident ==
  /\ [][(variant \in {"simple", "spin", "wait"} /\ TryPopReadsProducer)
          => ((cpc' = "done" /\ cres' = Empty) <=> (Resident = 0))]_vars
  /\ [][(variant \in {"simple", "spin", "wait"} /\ cop = "try_pop"
          /\ ~CIdle /\ cpc' = "done" /\ cres' = Empty)
          => (TryPopReadsProducer /\ Resident = 0)]_vars

\* C19 witness: a try_pop() on a closed queue has returned a resident item.
C19_Witness ==
  /\ variant \in {"simple", "spin", "wait"} /\ closed_ /\ cop = "try_pop"
  /\ cpc = "done" /\ cres >= 1 /\ cAfterClose

NbPCall(first) ==
  /\ PIdle /\ Len(accepted) < MaxCalls
  /\ ppc' = first /\ pop_' = "try_push"
  /\ pitem' = Len(accepted) + 1 /\ pcalls' = Len(accepted) + 1
  /\ pres' = "none" /\ pspin' = 0 /\ pt' = 0 /\ ph' = 0
  /\ pAfterClose' = closeDone /\ pWokenByClose' = FALSE
  /\ ref' = RefBroken
  /\ UNCHANGED <<qvars, cvars, kvars, accepted, delivered, closeDone,
                 closedQuiet, pInFlightAtClose, cAfterQuiet, cAfterClose>>
NbTryPushCall ==
  \/ variant = "simple" /\ NbPCall("ltp_lock")
  \/ variant = "spin" /\ NbPCall("stp_closed")
  \/ variant = "wait" /\ NbPCall("wtp_closed")
NbTryPushSteps ==
  \/ SimpleTryPushLock \/ SimpleTryPushLocked \/ SimpleTryPushNotify
  \/ SpinTryPushClosed \/ SpinTryPushFull \/ SpinTryPushWrite
  \/ SpinTryPushStore
  \/ WaitTryPushClosed \/ WaitTryPushFull \/ WaitTryPushWrite
  \/ WaitTryPushStore \/ WaitTryPushNotify
\* q.close() once every item is accepted
NbCloseCall ==
  /\ PIdle /\ Len(accepted) = MaxCalls /\ ncloses = 0
  /\ (SimpleCloseCall \/ SpinCloseCall \/ WaitCloseCall)
NbCloseSteps ==
  \/ SimpleCloseLock \/ SimpleCloseSet \/ SimpleCloseNotifyConsumer
  \/ SimpleCloseNotifyProducer
  \/ SpinCloseStore
  \/ WaitCloseStore \/ WaitCloseNotifyHead \/ WaitCloseNotifyTail
\* auto value = q.try_pop(): at the start, after an item, or after done()
\* answered false
NbTryPopCall ==
  /\ cpc = "idle" \/ (cpc = "done" /\ cres # Empty)
  /\ (SimpleTryPopCall \/ SpinTryPopCall \/ WaitTryPopCall)
NbTryPopSteps ==
  \/ SimpleTryPopLock \/ SimpleTryPopLocked \/ SimpleTryPopNotify
  \/ SpinTryPopEmpty \/ SpinTryPopRead \/ SpinTryPopStore
  \/ WaitTryPopEmpty \/ WaitTryPopRead \/ WaitTryPopStore
  \/ WaitTryPopNotify
\* if (q.done()) break; else continue;
NbDone ==
  /\ cpc = "done" /\ cop = "try_pop" /\ cres = Empty
  /\ cpc' = IF closed_ THEN "stopped" ELSE "idle"
  /\ UNCHANGED <<cop, ch, ct, cval, cspin, cres>>
  /\ UNCHANGED <<qvars, pvars, kvars, hvars>>
NextNb ==
  \/ NbTryPushCall \/ NbTryPushSteps \/ NbCloseCall \/ NbCloseSteps
  \/ NbTryPopCall \/ NbTryPopSteps \/ NbDone
InitNb == variant \in {"simple", "spin", "wait"} /\ InitState
SpecNb == InitNb /\ [][NextNb]_vars

\* C21: in the non-blocking test, when the consumer stops (try_pop() empty,
\* then done() true) it has received all MaxCalls items in push order.
C21_NonblockingConsumerGetsAll ==
  cpc = "stopped" => delivered = PipeItems

\* ----------------------------------------------------------------------
\* the four variants and the yield-less busy-spin class together
\* ----------------------------------------------------------------------
NextAll == Next \/ NextTailHead
SpecAll == (Init \/ InitTailHead) /\ [][NextAll]_vars

\* a step taken by a close() call
CloserStep == kpc' # kpc

\* C22: in every class, every step of a close() that runs after a close()
\* has returned leaves closed_ true and leaves the buffered items, the
\* producer's and consumer's positions and the occupancy counter as they
\* are.
C22_RepeatedCloseChangesNothing ==
  [][(closeDone /\ CloserStep)
       => /\ closed_ /\ closed_'
          /\ UNCHANGED <<buffer_, head_, tail_, q_, size_>>]_vars

\* C23: in every class closed_ is false until the first close() begins, true
\* once a close() has returned, changed by steps of close() only and never
\* set back to false.
C23_ClosedIsOneWay ==
  /\ [](ncloses = 0 => ~closed_)
  /\ [](closeDone => closed_)
  /\ [][closed_ => closed_']_vars
  /\ [][closed_' # closed_ => CloserStep]_vars

\* C23 witness: after two close() calls and a push and a pop begun after
\* them, closed_ is still true.
C23_Witness ==
  /\ closed_ /\ ncloses >= 2 /\ kpc = "done"
  /\ pAfterClose /\ ppc = "done" /\ cAfterClose /\ cpc = "done"


\* ---- the constructor ----------------------------------------------------
\* std::vector<T>::max_size(): no vector of more elements can be made, the
\* attempt ends in std::length_error (or std::bad_alloc)
VectorMaxSize == SizeMod \div 2 - 1

\* the element count the constructor asks std::vector for, from capacity c:
\* buffer_(buffer_size_) in the spin and wait rings, reserve(buffer_size_) in
\* the tail/head ring, reserve(capacity_) in the counter ring, none in the
\* mutex variant (std::queue)
CtorVectorSize(c) ==
  CASE variant \in {"spin", "wait", "tailhead"} -> (c + 1) % SizeMod
    [] variant = "counter" -> c
    [] OTHER -> 0

\* the order of the constructor's steps: the spin and wait rings build
\* buffer_ in the member initialisers, before the body tests capacity_;
\* the counter and tail/head rings reserve after the test
CtorResult(c) ==
  IF variant \in {"spin", "wait"}
  THEN IF CtorVectorSize(c) > VectorMaxSize THEN "allocation_failure"
       ELSE IF c = 0 THEN "invalid_argument" ELSE "ok"
  ELSE IF c = 0 THEN "invalid_argument"
       ELSE IF CtorVectorSize(c) > VectorMaxSize THEN "allocation_failure"
       ELSE "ok"

\* no queue yet: the fields have the values of their default initialisers
InitCtor ==
  /\ variant \in Variants \cup {"tailhead"}
  /\ capacity_ = 0
  /\ ctor = [capacity |-> 0, result |-> "none"]
  /\ mm = MmInitFor({})
  /\ buffer_ = [i \in {} |-> Empty]
  /\ head_ = 0 /\ tail_ = 0 /\ closed_ = FALSE /\ size_ = 0
  /\ q_ = <<>> /\ mtx_ = "free"
  /\ ppc = "idle" /\ pop_ = "none" /\ pitem = Empty /\ pt = 0 /\ ph = 0
  /\ pspin = 0 /\ pres = "none" /\ pcalls = 0
  /\ cpc = "idle" /\ cop = "none" /\ ch = 0 /\ ct = 0 /\ cval = Empty
  /\ cspin = 0 /\ cres = NoRes
  /\ kpc = "idle" /\ ncloses = 0
  /\ accepted = <<>> /\ delivered = <<>>
  /\ closeDone = FALSE /\ closedQuiet = FALSE /\ pInFlightAtClose = FALSE
  /\ pAfterClose = FALSE /\ pWokenByClose = FALSE /\ cAfterQuiet = FALSE
  /\ cAfterClose = FALSE /\ ref = RefInit

\* the constructor called with capacity c: small capacities, and the two
\* largest values of std::size_t
Construct ==
  /\ ctor.result = "none"
  /\ \E c \in (0..MaxCapacity) \cup {SizeMod - 2, SizeMod - 1} :
       /\ ctor' = [capacity |-> c, result |-> CtorResult(c)]
       /\ IF CtorResult(c) = "ok"
          THEN /\ capacity_' = c
               /\ buffer_' = [i \in 0..(CtorVectorSize(c) - 1) |-> Empty]
               /\ mm' = MmInitFor(0..(CtorVectorSize(c) - 1))
          ELSE UNCHANGED <<capacity_, buffer_, mm>>
  /\ UNCHANGED <<variant, head_, tail_, closed_, size_, q_, mtx_>>
  /\ UNCHANGED <<pvars, cvars, kvars, hvars>>

\* capacity(): the const member
capacity == capacity_

\* the operations run on a queue that was constructed; the queues of the two
\* largest capacities are constructed and left alone
NextCtor ==
  \/ Construct
  \/ ctor.result = "ok" /\ capacity_ <= MaxCapacity /\ NextAll
SpecCtor == InitCtor /\ [][NextCtor]_vars

\* C24: in every variant the constructor called with capacity 0 ends in
\* invalid_argument and leaves no queue (no operation ever runs); called with
\* any capacity c >= 1 it succeeds, the queue is open and empty until the
\* first call, and capacity() is c in every later state.
C24_CapacityValidatedAtConstruction ==
  ctor.result # "none" =>
    /\ ctor.capacity = 0 =>
         /\ ctor.result = "invalid_argument"
         /\ PIdle /\ CIdle /\ KIdle /\ pcalls = 0 /\ ncloses = 0
         /\ cop = "none"
    /\ ctor.capacity >= 1 =>
         /\ ctor.result = "ok"
         /\ capacity = ctor.capacity
         /\ (pcalls = 0 /\ cop = "none" /\ ncloses = 0) =>
              (~closed_ /\ head_ = tail_ /\ size_ = 0 /\ q_ = <<>>)


\* C25: in the busy-spin and wait-notify variants, once the closed flag is
\* true the tail index never advances again: no push or try_push stores an
\* item after close() has taken effect, a call that was already past its
\* closed-flag test when close() ran included.
C25_NoTailAdvanceOnceClosed ==
  [][(variant \in RingVariants /\ closed_) => tail_' = tail_]_vars


\* C26: in the busy-spin and wait-notify variants the two threads never work
\* on the same buffer slot at once: whenever the producer is between its
\* passed full test and its tail publish (slot pt) while the consumer is
\* between its passed empty test and its head publish (slot ch), pt # ch;
\* and the slot the producer writes never holds an item that was accepted and
\* is not yet delivered.
C26_SlotsNeverShared ==
  /\ [](LET producerSlot == {"stp_write", "sp_write", "wtp_write", "wp_write",
                             "stp_store", "sp_store", "wtp_store", "wp_store"}
            consumerSlot == {"stc_read", "stc_store", "sc_read", "sc_store",
                             "wtc_read", "wtc_store", "wc_read", "wc_store"}
        IN (variant \in RingVariants /\ ppc \in producerSlot
            /\ cpc \in consumerSlot) => pt # ch)
  /\ [][LET producerWrite == {"stp_write", "sp_write", "wtp_write", "wp_write"}
            undelivered(v) ==
              /\ \E i \in 1..Len(accepted) : accepted[i] = v
              /\ \A i \in 1..Len(delivered) : delivered[i] # v
        IN (variant \in RingVariants /\ ppc \in producerWrite /\ ppc' # ppc)
           => ~undelivered(buffer_[pt])]_vars
\* both threads inside their slots at once, after an earlier delivery
C26_Witness ==
  /\ variant \in RingVariants
  /\ ppc \in {"stp_store", "sp_store", "wtp_store", "wp_store"}
  /\ cpc \in {"stc_read", "stc_store", "sc_read", "sc_store",
              "wtc_read", "wtc_store", "wc_read", "wc_store"}
  /\ Len(delivered) >= 1
  /\ buffer_[pt] = pitem /\ pt # ch


\* C27: in the counter-wait variant the occupancy counter size_ stays within
\* 0..capacity in every reachable state, under any interleaving of push, pop
\* and close(), a close() that runs while a push or pop has passed its tests
\* included; it never wraps below zero.
C27_CounterWithinCapacity ==
  variant = "counter" => size_ \in 0..capacity_


\* C28: in the busy-spin and wait-notify variants head and tail are always
\* within 0..capacity, the number of items accepted and not yet delivered is
\* (tail - head) mod (capacity + 1), the queue is empty exactly when
\* head = tail and full exactly when (tail + 1) mod (capacity + 1) = head.
C28_RingIndexInvariant ==
  variant \in RingVariants =>
    /\ head_ \in 0..capacity_ /\ tail_ \in 0..capacity_
    /\ Resident = (tail_ - head_ + capacity_ + 1) % (capacity_ + 1)
    /\ (Resident = 0) <=> (head_ = tail_)
    /\ (Resident = capacity_) <=> ((tail_ + 1) % (capacity_ + 1) = head_)
\* a full ring whose tail has wrapped around behind the head
C28_Witness ==
  /\ variant \in RingVariants
  /\ tail_ < head_ /\ Resident = capacity_
  /\ (tail_ + 1) % (capacity_ + 1) = head_


\* C29: in the busy-spin and wait-notify variants tail changes only in a
\* push or try_push that succeeds (the call then returns true) and head only
\* in a pop or try_pop that succeeds (the call then returns an item); each
\* change is an advance by exactly one modulo the buffer size; close(),
\* capacity() and calls that fail or find the queue empty change neither.
C29_IndexFrame ==
  /\ [][(variant \in RingVariants /\ tail_' # tail_) =>
          /\ tail_' = (tail_ + 1) % (capacity_ + 1)
          /\ ppc' # ppc /\ pop_ \in {"push", "try_push"}
          /\ UNCHANGED <<head_, cpc, kpc>>]_vars
  /\ [][(variant \in RingVariants /\ head_' # head_) =>
          /\ head_' = (head_ + 1) % (capacity_ + 1)
          /\ cpc' # cpc /\ cop \in {"pop", "try_pop"}
          /\ cpc' \in {"done", "wtc_notify", "wc_notify"}
          /\ UNCHANGED <<tail_, ppc, kpc>>]_vars
  /\ [][(variant \in RingVariants /\ ppc' = "done" /\ ppc # "done") =>
          ((pres' = "true") <=>
             (\E i \in 1..Len(accepted') : accepted'[i] = pitem))]_vars
  /\ [][(variant \in RingVariants /\ cpc' = "done" /\ cpc # "done") =>
          ((cres' # Empty) <=>
             (head_' # head_ \/ cpc \in {"wtc_notify", "wc_notify"}))]_vars
\* the tail has wrapped, then close(), a refused push and an empty pop have
\* returned with the indexes where the last successful calls left them
C29_Witness ==
  /\ variant \in RingVariants
  /\ closed_ /\ kpc = "done" /\ ncloses >= 1
  /\ ppc = "done" /\ pres = "false"
  /\ cpc = "done" /\ cres = Empty
  /\ Len(accepted) = 2 /\ Len(delivered) = 2
  /\ capacity_ = 1 /\ tail_ = 0 /\ head_ = 0


\* C30: in every variant, while the queue is open, the producer suspended in
\* push() because the queue is full and the consumer suspended in pop()
\* because it is empty never occur in the same state: the two threads never
\* wait for each other. (Suspended: inside the condition-variable wait of
\* the lock-based variant or inside the atomic wait of the wait-notify and
\* counter-wait variants; the busy-spin variant never suspends.)
C30_NoMutualSuspension ==
  ~closed_ =>
    ~( /\ ppc \in {"lp_cvwait", "wp_blocked", "cp_blocked"}
       /\ cpc \in {"lc_cvwait", "wc_blocked", "cc_blocked"} )
\* the producer suspended on a full open queue while the consumer, which has
\* delivered before, is inside its next pop()
C30_Witness ==
  /\ ~closed_ /\ ncloses = 0
  /\ ppc \in {"lp_cvwait", "wp_blocked", "cp_blocked"}
  /\ Resident = capacity_
  /\ cop = "pop" /\ ~CIdle /\ Len(delivered) >= 1


\* C31: in every variant a push() or try_push() that returns false (queue
\* full, closed on entry or closed while waiting) has modified no buffer
\* slot, position or counter, and a try_pop() or pop() that returns empty has
\* modified none. A producer step that modifies any of them stores or
\* publishes the item of its call, and a call that returns false has left
\* its item in no slot and in no accepted position; a consumer step that
\* modifies any of them holds an item taken from the queue, keeps it to the
\* end of the call and returns it, and a call that returns empty holds none.
C31_FailedCallsChangeNothing ==
  /\ [][(ppc' # ppc /\ cpc' = cpc /\ kpc' = kpc
         /\ <<buffer_, head_, tail_, size_, q_>>'
              # <<buffer_, head_, tail_, size_, q_>>) =>
          \/ \E i \in DOMAIN buffer_' : buffer_'[i] = pitem
          \/ \E i \in 1..Len(accepted') : accepted'[i] = pitem]_vars
  /\ [][(ppc' = "done" /\ ppc # "done" /\ pres' = "false") =>
          /\ \A i \in DOMAIN buffer_' : buffer_'[i] # pitem
          /\ \A i \in 1..Len(accepted') : accepted'[i] # pitem
          /\ UNCHANGED <<buffer_, head_, tail_, size_, q_>>]_vars
  /\ [][(cpc' # cpc /\ ppc' = ppc /\ kpc' = kpc
         /\ <<buffer_, head_, tail_, size_, q_>>'
              # <<buffer_, head_, tail_, size_, q_>>) =>
          (IF cpc' = "done" THEN cres' ELSE cval') # Empty]_vars
  /\ [][(cval # Empty /\ cpc' # cpc) =>
          (IF cpc' = "done" THEN cres' ELSE cval') = cval]_vars
  /\ [][(cpc' = "done" /\ cpc # "done" /\ cres' = Empty) =>
          /\ cval = Empty
          /\ UNCHANGED <<buffer_, head_, tail_, size_, q_, delivered>>]_vars

\* a push() that waited on a full queue has been refused by a close() and
\* the queue still holds exactly the items accepted before
C31_Witness ==
  /\ ppc = "done" /\ pop_ = "push" /\ pres = "false"
  /\ pInFlightAtClose /\ ~pAfterClose /\ closed_
  /\ Resident = capacity_ /\ Len(accepted) = capacity_
  /\ \A i \in DOMAIN buffer_ : buffer_[i] # pitem


\* C32: in every variant try_push, try_pop and close complete after a bounded
\* number of their own steps, also while the other thread is suspended in
\* push() or pop(): each of their steps moves forward in the straight line of
\* the operation's program points (no loop, no wait, no spin), and whenever
\* one of them is in progress its next step can be taken, except that in the
\* lock-based variant it may have to wait for the mutex while another thread
\* holds it; the thread that holds the mutex is never suspended and can
\* always take its next step, so a thread suspended in push()/pop() holds no
\* mutex.
C32_NonBlockingOperations ==
  /\ [][LET order == <<"ltp_lock", "ltp_push", "ltp_notify",
                       "stp_closed", "stp_full", "stp_write", "stp_store",
                       "wtp_closed", "wtp_full", "wtp_write", "wtp_store",
                       "wtp_notify",
                       "ctp_size", "ctp_closed", "ctp_write", "ctp_add",
                       "ctp_notify",
                       "ltc_lock", "ltc_pop", "ltc_notify",
                       "stc_empty", "stc_read", "stc_store",
                       "wtc_empty", "wtc_read", "wtc_store", "wtc_notify",
                       "ctc_size", "ctc_closed", "ctc_read", "ctc_sub",
                       "ctc_notify",
                       "lk_lock", "lk_set", "lk_ncons", "lk_nprod",
                       "sk_store", "wk_store", "wk_nhead", "wk_ntail",
                       "ck_closed", "ck_size", "ck_notify", "done">>
            rank(pc) == CHOOSE n \in 1..Len(order) : order[n] = pc
        IN /\ (pop_ = "try_push" /\ ~PIdle /\ ppc' # ppc) =>
                rank(ppc') > rank(ppc)
           /\ (cop = "try_pop" /\ ~CIdle /\ cpc' # cpc) =>
                rank(cpc') > rank(cpc)
           /\ (~KIdle /\ kpc' # kpc) => rank(kpc') > rank(kpc)]_vars
  /\ []((pop_ = "try_push" /\ ~PIdle) =>
          \/ ENABLED ProducerRun
          \/ variant = "simple" /\ ppc = "ltp_lock" /\ mtx_ \in {"C", "K"})
  /\ []((cop = "try_pop" /\ ~CIdle) =>
          \/ ENABLED ConsumerRun
          \/ variant = "simple" /\ cpc = "ltc_lock" /\ mtx_ \in {"P", "K"})
  /\ [](~KIdle =>
          \/ ENABLED CloserRun
          \/ variant = "simple" /\ kpc = "lk_lock" /\ mtx_ \in {"P", "C"})
  /\ []((variant = "simple" /\ mtx_ = "P") =>
          (ppc \notin {"idle", "done", "lp_cvwait", "lp_relock"}
           /\ ENABLED ProducerRun))
  /\ []((variant = "simple" /\ mtx_ = "C") =>
          (cpc \notin {"idle", "done", "lc_cvwait", "lc_relock"}
           /\ ENABLED ConsumerRun))
  /\ []((variant = "simple" /\ mtx_ = "K") => (~KIdle /\ ENABLED CloserRun))
\* a try_push() inside its critical section while the consumer is suspended
\* in pop() on the condition variable
C32_Witness ==
  /\ variant = "simple" /\ ~closed_
  /\ cop = "pop" /\ cpc = "lc_cvwait"
  /\ pop_ = "try_push" /\ ppc = "ltp_push" /\ mtx_ = "P"


\* C33: in the busy-spin variant a close() that takes effect while pop() is
\* spinning on an empty queue is observed with a bounded delay: every
\* iteration of pop() whose empty test fails goes on to read the closed flag,
\* whatever the spin count (yield or no yield), and a read of the flag that
\* finds it set returns empty at once; so with the flag set and no item
\* arriving pop() returns empty after at most one more empty test.
C33_SpinPopSeesCloseWithinOneIteration ==
  /\ [][(variant = "spin" /\ cop = "pop" /\ cpc = "sc_empty"
         /\ head_ = tail_ /\ cpc' # cpc) => cpc' = "sc_closed"]_vars
  /\ [][(variant = "spin" /\ cop = "pop" /\ cpc = "sc_closed"
         /\ closed_ /\ cpc' # cpc) =>
          (cpc' = "done" /\ cres' = Empty /\ UNCHANGED <<head_, delivered>>)]_vars
  /\ [][(variant = "spin" /\ cop = "pop" /\ cpc = "sc_closed"
         /\ ~closed_ /\ cpc' # cpc) => cpc' = "sc_empty"]_vars
\* pop() began before the close, has failed its empty test in an iteration
\* without a yield and is about to read the flag that close() has set
C33_Witness ==
  /\ variant = "spin" /\ cop = "pop" /\ cpc = "sc_closed"
  /\ cspin = 1 /\ ~cAfterClose
  /\ closed_ /\ kpc = "done" /\ head_ = tail_


\* ======================================================================
\* The lock-free classes on the C++ memory model: an atomic load may return
\* any store not older than the newest one the thread has read; an acquire
\* load takes over the slot accesses its store released; a slot access that
\* is not ordered after the slot's previous access is a data race.
\* ======================================================================
\* the memory order written at each kind of access: the thread's own index
\* (own_load), an index or flag written by another thread (other_load), an
\* index or flag store (store), the load inside atomic wait (wait); the
\* counter class names no order, which is memory_order_seq_cst
MemoryOrderRelaxed(kind) == "relaxed"
MemoryOrder(kind) ==
  CASE variant = "counter" -> "seq_cst"
    [] kind = "own_load" -> "relaxed"
    [] kind = "other_load" -> "acquire"
    [] kind = "store" -> "release"
    [] kind = "wait" -> "relaxed"

\* the stores of atomic v that a load by th may return
MmReadable(th, v, kind) ==
  IF MemoryOrder(kind) = "seq_cst" THEN {Len(mm.hist[v])}
  ELSE mm.seen[th][v]..Len(mm.hist[v])

MmJoin(a, b) == [s \in DOMAIN a |-> IF a[s] >= b[s] THEN a[s] ELSE b[s]]

\* the memory after th has loaded store i of atomic v
MmLoad(th, v, kind, i) ==
  [mm EXCEPT !.seen[th][v] = i,
             !.view[th] = IF MemoryOrder(kind) \in {"acquire", "seq_cst"}
                          THEN MmJoin(@, mm.hist[v][i].view) ELSE @,
             !.loads = @ \cup {<<th, v, MemoryOrder(kind), kind>>}]

\* the memory m after th has stored val to atomic v (rmw: a read-modify-write
\* of the newest store)
MmStore(m, th, v, val, rmw) ==
  LET o == MemoryOrder("store")
      last == m.hist[v][Len(m.hist[v])]
      own == IF o \in {"release", "seq_cst"} THEN m.view[th]
             ELSE [s \in DOMAIN m.ver |-> 0]
  IN [m EXCEPT !.hist[v] = Append(@, [val |-> val,
                                      view |-> IF rmw THEN MmJoin(own, last.view)
                                               ELSE own]),
               !.seen[th][v] = Len(m.hist[v]) + 1,
               !.view[th] = IF rmw /\ o = "seq_cst" THEN MmJoin(@, last.view)
                            ELSE @,
               !.stores = @ \cup {<<th, v, o>>}]

\* the memory after th has written or moved from slot s
MmAccess(th, s) ==
  [mm EXCEPT !.race = @ \/ (mm.view[th][s] # mm.ver[s]),
             !.ver[s] = @ + 1,
             !.view[th][s] = mm.ver[s] + 1]

\* what a read of slot s gives th: the slot's content, or anything at all
\* when the read races with the write
MmSlotValues(th, s) ==
  IF mm.view[th][s] = mm.ver[s] THEN {buffer_[s]} ELSE 0..MaxCalls

RaKeepQ == UNCHANGED <<variant, capacity_, ctor, buffer_, head_, tail_, closed_,
                       size_, q_, mtx_>>

\* push() of the spin ring (lines 82-108) and of the wait ring (lines 88-114)
RaPush ==
  /\ variant \in RingVariants
  /\ \/ PCall("push", "mp_closed")
     \/ /\ ppc = "mp_closed"
        /\ \E i \in MmReadable("P", "closed_", "other_load") :
             /\ mm' = MmLoad("P", "closed_", "other_load", i)
             /\ IF mm.hist["closed_"][i].val THEN PRet("false")
                ELSE PGo("mp_tail", pt, ph, pspin)
        /\ RaKeepQ /\ UNCHANGED <<cvars, kvars, hvars>>
     \/ /\ ppc = "mp_tail"
        /\ \E i \in MmReadable("P", "tail_", "own_load") :
             /\ mm' = MmLoad("P", "tail_", "own_load", i)
             /\ PGo("mp_head", mm.hist["tail_"][i].val, ph, pspin)
        /\ RaKeepQ /\ UNCHANGED <<cvars, kvars, hvars>>
     \/ /\ ppc = "mp_head"
        /\ \E i \in MmReadable("P", "head_", "other_load") :
             LET h == mm.hist["head_"][i].val IN
             /\ mm' = MmLoad("P", "head_", "other_load", i)
             /\ IF NextIndex(pt) # h THEN PGo("mp_write", pt, h, pspin)
                ELSE IF variant = "spin"
                     THEN PGo("mp_closed", pt, h, SpinStep(pspin))
                     ELSE PGo("mp_wait", pt, h, pspin)
        /\ RaKeepQ /\ UNCHANGED <<cvars, kvars, hvars>>
     \/ /\ ppc = "mp_write"
        /\ mm' = MmAccess("P", pt)
        /\ buffer_' = [buffer_ EXCEPT ![pt] = pitem]
        /\ PGo("mp_store", pt, ph, pspin)
        /\ UNCHANGED <<variant, capacity_, ctor, head_, tail_, closed_, size_,
                       q_, mtx_>>
        /\ UNCHANGED <<cvars, kvars, hvars>>
     \/ /\ ppc = "mp_store"
        /\ mm' = MmStore(mm, "P", "tail_", NextIndex(pt), FALSE)
        /\ tail_' = NextIndex(pt)
        /\ accepted' = Append(accepted, pitem)
        /\ IF variant = "spin" THEN PRet("true")
           ELSE PGo("mp_notify", pt, ph, pspin)
        /\ UNCHANGED <<variant, capacity_, ctor, buffer_, head_, closed_, size_,
                       q_, mtx_>>
        /\ HKeepP /\ UNCHANGED <<cvars, kvars>>
     \/ /\ ppc = "mp_notify"
        /\ cpc' = IF cpc = "mc_blocked" THEN "mc_wait" ELSE cpc
        /\ PRet("true")
        /\ UNCHANGED <<cop, ch, ct, cval, cspin, cres>>
        /\ UNCHANGED <<qvars, kvars, hvars>>
     \/ /\ ppc = "mp_wait"
        /\ \E i \in MmReadable("P", "head_", "wait") :
             /\ mm' = MmLoad("P", "head_", "wait", i)
             /\ IF mm.hist["head_"][i].val # ph
                THEN PGo("mp_closed", pt, ph, pspin)
                ELSE PGo("mp_blocked", pt, ph, pspin)
        /\ RaKeepQ /\ UNCHANGED <<cvars, kvars, hvars>>

\* pop() of the spin ring (lines 129-156) and of the wait ring (lines 137-164)
RaPop ==
  /\ variant \in RingVariants
  /\ \/ CCall("pop", "mc_head")
     \/ /\ cpc = "mc_head"
        /\ \E i \in MmReadable("C", "head_", "own_load") :
             /\ mm' = MmLoad("C", "head_", "own_load", i)
             /\ CGo("mc_tail", mm.hist["head_"][i].val, ct, cval, cspin)
        /\ RaKeepQ /\ UNCHANGED <<pvars, kvars, hvars>>
     \/ /\ cpc = "mc_tail"
        /\ \E i \in MmReadable("C", "tail_", "other_load") :
             LET t == mm.hist["tail_"][i].val IN
             /\ mm' = MmLoad("C", "tail_", "other_load", i)
             /\ IF ch # t THEN CGo("mc_read", ch, t, cval, cspin)
                ELSE CGo("mc_closed", ch, t, cval,
                         IF variant = "spin" THEN SpinStep(cspin) ELSE cspin)
        /\ RaKeepQ /\ UNCHANGED <<pvars, kvars, hvars>>
     \/ /\ cpc = "mc_read"
        /\ mm' = MmAccess("C", ch)
        /\ \E v \in MmSlotValues("C", ch) : CGo("mc_store", ch, ct, v, cspin)
        /\ RaKeepQ /\ UNCHANGED <<pvars, kvars, hvars>>
     \/ /\ cpc = "mc_store"
        /\ mm' = MmStore(mm, "C", "head_", NextIndex(ch), FALSE)
        /\ head_' = NextIndex(ch)
        /\ delivered' = Append(delivered, cval)
        /\ IF variant = "spin" THEN CRet(cval)
           ELSE CGo("mc_notify", ch, ct, cval, cspin)
        /\ UNCHANGED <<variant, capacity_, ctor, buffer_, tail_, closed_, size_,
                       q_, mtx_>>
        /\ HKeepC /\ UNCHANGED <<pvars, kvars>>
     \/ /\ cpc = "mc_notify"
        /\ ppc' = IF ppc = "mp_blocked" THEN "mp_wait" ELSE ppc
        /\ CRet(cval)
        /\ UNCHANGED <<pop_, pitem, pt, ph, pspin, pres, pcalls>>
        /\ UNCHANGED <<qvars, kvars, hvars>>
     \/ /\ cpc = "mc_closed"
        /\ \E i \in MmReadable("C", "closed_", "other_load") :
             /\ mm' = MmLoad("C", "closed_", "other_load", i)
             /\ IF mm.hist["closed_"][i].val THEN CRet(Empty)
                ELSE IF variant = "spin"
                     THEN CGo("mc_head", ch, ct, cval, cspin)
                     ELSE CGo("mc_wait", ch, ct, cval, cspin)
        /\ RaKeepQ /\ UNCHANGED <<pvars, kvars, hvars>>
     \/ /\ cpc = "mc_wait"
        /\ \E i \in MmReadable("C", "tail_", "wait") :
             /\ mm' = MmLoad("C", "tail_", "wait", i)
             /\ IF mm.hist["tail_"][i].val # ct
                THEN CGo("mc_head", ch, ct, cval, cspin)
                ELSE CGo("mc_blocked", ch, ct, cval, cspin)
        /\ RaKeepQ /\ UNCHANGED <<pvars, kvars, hvars>>

\* close() of the spin ring (lines 162-165) and of the wait ring (170-176)
RaClose ==
  /\ variant \in RingVariants
  /\ \/ KCall("mk_store")
     \/ /\ kpc = "mk_store"
        /\ mm' = MmStore(mm, "K", "closed_", TRUE, FALSE)
        /\ closed_' = TRUE
        /\ KMark
        /\ IF variant = "spin" THEN KRet
           ELSE /\ kpc' = "mk_nhead"
                /\ UNCHANGED <<ncloses, closeDone, closedQuiet>>
        /\ UNCHANGED <<variant, capacity_, ctor, buffer_, head_, tail_, size_,
                       q_, mtx_>>
        /\ UNCHANGED <<accepted, delivered, pAfterClose, pWokenByClose,
                       cAfterQuiet, cAfterClose, ref>>
        /\ UNCHANGED <<pvars, cvars>>
     \/ /\ kpc = "mk_nhead"
        /\ ppc' = IF ppc = "mp_blocked" THEN "mp_wait" ELSE ppc
        /\ pWokenByClose' = (pWokenByClose \/ ppc = "mp_blocked")
        /\ kpc' = "mk_ntail"
        /\ UNCHANGED <<pop_, pitem, pt, ph, pspin, pres, pcalls>>
        /\ UNCHANGED <<ncloses, accepted, delivered, closeDone, closedQuiet,
                       pInFlightAtClose, pAfterClose, cAfterQuiet, cAfterClose,
                       ref>>
        /\ UNCHANGED <<qvars, cvars>>
     \/ /\ kpc = "mk_ntail"
        /\ cpc' = IF cpc = "mc_blocked" THEN "mc_wait" ELSE cpc
        /\ KRet
        /\ UNCHANGED <<cop, ch, ct, cval, cspin, cres>>
        /\ UNCHANGED <<accepted, delivered, pInFlightAtClose, pAfterClose,
                       pWokenByClose, cAfterQuiet, cAfterClose, ref>>
        /\ UNCHANGED <<qvars, pvars>>


\* try_push() of the counter ring (lines 37-52); size_.notify_one() wakes
\* nobody here, no thread of this specification waits on size_
RaCounterTryPush ==
  /\ variant = "counter"
  /\ \/ PCall("try_push", "mtp_size")
     \/ /\ ppc = "mtp_size"
        /\ \E i \in MmReadable("P", "size_", "other_load") :
             /\ mm' = MmLoad("P", "size_", "other_load", i)
             /\ IF mm.hist["size_"][i].val >= capacity_ THEN PRet("false")
                ELSE PGo("mtp_closed", pt, ph, pspin)
        /\ RaKeepQ /\ UNCHANGED <<cvars, kvars, hvars>>
     \/ /\ ppc = "mtp_closed"
        /\ \E i \in MmReadable("P", "closed_", "other_load") :
             /\ mm' = MmLoad("P", "closed_", "other_load", i)
             /\ IF mm.hist["closed_"][i].val THEN PRet("false")
                ELSE PGo("mtp_write", pt, ph, pspin)
        /\ RaKeepQ /\ UNCHANGED <<cvars, kvars, hvars>>
     \/ /\ ppc = "mtp_write"
        /\ mm' = MmAccess("P", tail_)
        /\ buffer_' = [buffer_ EXCEPT ![tail_] = pitem]
        /\ tail_' = (tail_ + 1) % capacity_
        /\ PGo("mtp_add", pt, ph, pspin)
        /\ UNCHANGED <<variant, capacity_, ctor, head_, closed_, size_, q_, mtx_>>
        /\ UNCHANGED <<cvars, kvars, hvars>>
     \/ /\ ppc = "mtp_add"
        /\ mm' = MmStore(mm, "P", "size_", SizeAdd(size_), TRUE)
        /\ size_' = SizeAdd(size_)
        /\ accepted' = Append(accepted, pitem)
        /\ PRet("true")
        /\ UNCHANGED <<variant, capacity_, ctor, buffer_, head_, tail_, closed_,
                       q_, mtx_>>
        /\ HKeepP /\ UNCHANGED <<cvars, kvars>>

\* try_pop() of the counter ring (lines 93-108)
RaCounterTryPop ==
  /\ variant = "counter"
  /\ \/ CCall("try_pop", "mtc_size")
     \/ /\ cpc = "mtc_size"
        /\ \E i \in MmReadable("C", "size_", "other_load") :
             /\ mm' = MmLoad("C", "size_", "other_load", i)
             /\ IF mm.hist["size_"][i].val = 0 THEN CRet(Empty)
                ELSE CGo("mtc_closed", ch, ct, cval, cspin)
        /\ RaKeepQ /\ UNCHANGED <<pvars, kvars, hvars>>
     \/ /\ cpc = "mtc_closed"
        /\ \E i \in MmReadable("C", "closed_", "other_load") :
             /\ mm' = MmLoad("C", "closed_", "other_load", i)
             /\ IF mm.hist["closed_"][i].val THEN CRet(Empty)
                ELSE CGo("mtc_read", ch, ct, cval, cspin)
        /\ RaKeepQ /\ UNCHANGED <<pvars, kvars, hvars>>
     \/ /\ cpc = "mtc_read"
        /\ mm' = MmAccess("C", head_)
        /\ \E v \in MmSlotValues("C", head_) : CGo("mtc_sub", ch, ct, v, cspin)
        /\ head_' = (head_ + 1) % capacity_
        /\ UNCHANGED <<variant, capacity_, ctor, buffer_, tail_, closed_, size_,
                       q_, mtx_>>
        /\ UNCHANGED <<pvars, kvars, hvars>>
     \/ /\ cpc = "mtc_sub"
        /\ mm' = MmStore(mm, "C", "size_", SizeSub(size_), TRUE)
        /\ size_' = SizeSub(size_)
        /\ delivered' = Append(delivered, cval)
        /\ CRet(cval)
        /\ UNCHANGED <<variant, capacity_, ctor, buffer_, head_, tail_, closed_,
                       q_, mtx_>>
        /\ HKeepC /\ UNCHANGED <<pvars, kvars>>

\* close() of the counter ring (lines 156-161)
RaCounterClose ==
  /\ variant = "counter"
  /\ \/ KCall("mk_store")
     \/ /\ kpc = "mk_store"
        /\ mm' = MmStore(mm, "K", "closed_", TRUE, FALSE)
        /\ closed_' = TRUE
        /\ KMark
        /\ kpc' = "mk_size"
        /\ UNCHANGED <<variant, capacity_, ctor, buffer_, head_, tail_, size_,
                       q_, mtx_>>
        /\ UNCHANGED <<ncloses, accepted, delivered, closeDone, closedQuiet,
                       pAfterClose, pWokenByClose, cAfterQuiet, cAfterClose, ref>>
        /\ UNCHANGED <<pvars, cvars>>
     \/ /\ kpc = "mk_size"
        /\ mm' = MmStore(mm, "K", "size_", 0, FALSE)
        /\ size_' = 0
        /\ KRet
        /\ UNCHANGED <<variant, capacity_, ctor, buffer_, head_, tail_, closed_,
                       q_, mtx_>>
        /\ UNCHANGED <<accepted, delivered, pInFlightAtClose, pAfterClose,
                       pWokenByClose, cAfterQuiet, cAfterClose, ref>>
        /\ UNCHANGED <<pvars, cvars>>

NextRa == RaPush \/ RaPop \/ RaClose \/ RaCounterTryPush \/ RaCounterTryPop
          \/ RaCounterClose
InitRa == variant \in {"counter", "spin", "wait"} /\ InitState
SpecRa == InitRa /\ [][NextRa]_vars


C35_BufferSizeNeverWraps ==
  (variant \in RingVariants /\ ctor.result = "ok") =>
    /\ buffer_size_ = capacity_ + 1
    /\ buffer_size_ >= 2

====
